---- MODULE Spec2Model ----
(***************************************************************************)
(* Decision and execution core of the Aurora spot-trading engine.          *)
(*                                                                         *)
(* Numbers.  The engine computes in f64; the model computes in integers:   *)
(*   - prices are integer quote units (an entry price of 10000),           *)
(*   - percentages are basis points (1 % = 100 bp, so 0.4 % = 40),         *)
(*   - ATR multipliers are tenths (1.5 = 15),                              *)
(*   - quantities are units of 1e-4 base asset, PnL = price * quantity,    *)
(*   - times are seconds.                                                  *)
(* The specifications share the variables; each pins the groups it does    *)
(* not drive to their initial values:                                      *)
(*   SpecBarrier  one BarrierState driven by evaluate(price, time) calls   *)
(*   SpecTrail    one MicroTrailState driven by evaluate calls             *)
(*   SpecRisk     the RiskEngine called by concurrent tasks around a UTC   *)
(*                date boundary                                            *)
(*   SpecRiskMode the RiskEngine called by one task, with kill and reset   *)
(*   SpecPM       the PositionManager driven through its public methods    *)
(*   Spec         strategy loop, execution, exit monitor, price loop,      *)
(*                regime loop and control API over the shared AppState     *)
(*   SpecExit     run_exit_monitor statement by statement                  *)
(*   SpecBoot     main() and the control API; SpecRegister the registration*)
(*   SpecDaily, SpecOpens  positions opened and closed across UTC days     *)
(*   SpecProposal, SpecGate, SpecFilter, SpecRegime  one call of           *)
(*                evaluate_symbol, check_all, the smart filters, classify  *)
(*   SpecCandle, SpecTrades  the candle buffer and the trade stream        *)
(***************************************************************************)
EXTENDS Integers, Sequences, FiniteSets, TLC

VARIABLES
    \* ---- SpecBarrier -------------------------------------------------------
    bs,             \* the BarrierState under test
    bres,           \* result of the last evaluate ("None" or an ExitReason)
    bin             \* inputs of the last evaluate: [price, time]

barrierVars == <<bs, bres, bin>>

VARIABLES
    \* ---- SpecTrail ---------------------------------------------------------
    mt,             \* the MicroTrailState under test
    mtHit,          \* result of the last evaluate
    mtNow           \* current_time_secs of the last evaluate

trailVars == <<mt, mtHit, mtNow>>

VARIABLES
    \* ---- run_exit_monitor and the registration of main.rs (SpecExit) -------
    mon,            \* the exit monitor: its position and the locals of its tick
    reg,            \* the strategy loop between execute_proposal and the inserts
    locks           \* who holds barriers.write() and micro_trails.write()

exitVars == <<mon, reg, locks>>

VARIABLES
    \* ---- functions and components checked on their own ----------------------
    fnIn,           \* the arguments of the last call of the function under test
    fnOut,          \* what that call returned
    buffers,        \* CandleBuffer.buffers: CandleKey -> VecDeque<Candle>
    tsp,            \* the TradeStreamProcessor of one symbol
    account_mode,   \* RuntimeConfig.account_mode: "Demo" | "Live"
    closedAtReset   \* history: the length of the journal when do_reset last ran

partVars == <<fnIn, fnOut, buffers, tsp, account_mode, closedAtReset>>

\* the variables of the specifications that drive one part on its own
unitVars == <<barrierVars, trailVars, exitVars, partVars>>

VARIABLES
    \* ---- RiskEngine (SpecRisk, Spec) ---------------------------------------
    risk,           \* RiskEngine.state: the Inner record behind the RwLock
    wallDate,       \* the UTC calendar day Utc::now() reports (day number)
    \* ---- SpecRisk: tasks inside can_trade / record_trade_result / get_state
    tpc,            \* task -> "idle" | "read" | "write" | "body"
    top,            \* task -> the method the task is in
    targ,           \* task -> the pnl argument of record_trade_result
    ttoday,         \* task -> the local `today` of maybe_reset_daily
    tres,           \* task -> "allowed" / "blocked" once its can_trade returned, else None
    tkill,          \* task -> kill() had returned before the call started
    autoResets,     \* number of do_reset calls made by maybe_reset_daily
    killCalled,     \* kill() has been called
    adminReset      \* reset_daily() has been called after kill()

VARIABLES
    \* ---- PositionManager (SpecPM, Spec) ------------------------------------
    open,           \* PositionManager.open: Vec<Position>
    closed,         \* PositionManager.closed: Vec<Position>
    nextId,         \* the next fresh position id (ids stand for the UUIDs)
    origQty,        \* history: id -> quantity the position was opened with
    fills           \* history: id -> sequence of [price, qty] taken off the position

pmVars == <<open, closed, nextId, origQty, fills>>

VARIABLES
    \* ---- AppState and the loops of main.rs (Spec) --------------------------
    trading_mode,   \* runtime_config.trading_mode
    max_concurrent_positions,   \* runtime_config.max_concurrent_positions
    strategy_params,            \* runtime_config.strategy_params
    regime,         \* regime_detector.current_regime(): None or a MarketRegime
    now,            \* SystemTime::now() in seconds
    barriers,       \* BarrierStates: position id -> Option<BarrierState>
    trails,         \* MicroTrailStates: position id -> Option<MicroTrailState>
    stratPc,        \* strategy loop: "idle" | "eval" | "push" | "exec" | "regBarrier" | "regTrail"
    stratIdx,       \* index into the symbol list of the symbol being processed
    proposal,       \* the loop's local Option<TradeProposal>
    envelope,       \* the loop's local envelope, until push_decision takes it
    evalRegime,     \* history: current_regime() as that evaluate_symbol read it
    tickEnvs,       \* history: symbol -> number of envelopes pushed in the current tick
    regId,          \* id of the position found for exit-state registration (0: none)
    toClose,        \* exit monitor: to_close, a sequence of [id, price, reason]
    state_version   \* AppState.state_version

cfgVars == <<trading_mode, max_concurrent_positions, strategy_params>>
mapVars == <<barriers, trails>>
stratVars == <<stratPc, stratIdx, proposal, envelope, evalRegime, tickEnvs, regId>>
sysVars == <<cfgVars, regime, now, mapVars, stratVars, toClose, state_version>>

riskVars == <<risk, wallDate>>
taskVars == <<tpc, top, targ, ttoday, tres, tkill, autoResets, killCalled, adminReset>>

None == "None"

\* Option<T> of a non-string T: the empty sequence or a one-element sequence
NoneOpt == <<>>
Some(v) == <<v>>
IsSome(o) == Len(o) = 1
Unwrap(o) == o[1]

\* Market used by every specification: the entry price and the price grid
EntryPrice == 10000
PriceStep == 25
PriceSpan == 8
BTimeLimit == 16
MaxTime == 17

Max(a, b) == IF a >= b THEN a ELSE b
Min(a, b) == IF a <= b THEN a ELSE b
Abs(a) == IF a >= 0 THEN a ELSE -a

(***************************************************************************)
(* Triple barrier (exit/triple_barrier.rs)                                 *)
(***************************************************************************)
MIN_SL_PCT == 40
MIN_TP1_PCT == 60
MIN_TP2_PCT == 100
BREAKEVEN_BUFFER_PCT == 5

\* regime_params: (sl_mult, tp1_mult, tp2_mult) in tenths, time limit in seconds.
\* The match is on regime.to_uppercase().
regime_params(label) ==
    CASE label \in {"TRENDING", "Trending"} -> [sl |-> 15, tp1 |-> 20, tp2 |-> 40, time |-> 3600]
      [] label \in {"RANGING", "Ranging"}   -> [sl |-> 10, tp1 |-> 15, tp2 |-> 25, time |-> 1800]
      [] label \in {"VOLATILE", "Volatile"} -> [sl |-> 20, tp1 |-> 25, tp2 |-> 50, time |-> 2400]
      [] label \in {"SQUEEZE", "Squeeze"}   -> [sl |-> 8,  tp1 |-> 12, tp2 |-> 20, time |-> 1200]
      [] label \in {"DEAD", "Dead"}         -> [sl |-> 10, tp1 |-> 10, tp2 |-> 15, time |-> 600]
      [] OTHER                               -> [sl |-> 12, tp1 |-> 18, tp2 |-> 30, time |-> 2400]

\* BarrierConfig::from_atr(atr_pct, regime); atr_pct in basis points.
from_atr(atr_pct, label) ==
    LET p == regime_params(label) IN
    [sl_pct          |-> Max((atr_pct * p.sl) \div 10, MIN_SL_PCT),
     tp1_pct         |-> Max((atr_pct * p.tp1) \div 10, MIN_TP1_PCT),
     tp2_pct         |-> Max((atr_pct * p.tp2) \div 10, MIN_TP2_PCT),
     time_limit_secs |-> p.time,
     regime          |-> label]

\* BarrierConfig::explicit
explicit(sl_pct, tp1_pct, tp2_pct, time_limit_secs) ==
    [sl_pct          |-> Max(sl_pct, MIN_SL_PCT),
     tp1_pct         |-> Max(tp1_pct, MIN_TP1_PCT),
     tp2_pct         |-> Max(tp2_pct, MIN_TP2_PCT),
     time_limit_secs |-> time_limit_secs,
     regime          |-> "MANUAL"]

\* entry * pct / 100 with pct in basis points
PctOf(entry, pct) == (entry * pct) \div 10000

\* BarrierState::new
BarrierState_new(config, entry_price, side, opened_at_secs) ==
    [config                |-> config,
     entry_price           |-> entry_price,
     side                  |-> side,
     current_sl_price      |-> IF side = "BUY"
                               THEN entry_price - PctOf(entry_price, config.sl_pct)
                               ELSE entry_price + PctOf(entry_price, config.sl_pct),
     tp1_price             |-> IF side = "BUY"
                               THEN entry_price + PctOf(entry_price, config.tp1_pct)
                               ELSE entry_price - PctOf(entry_price, config.tp1_pct),
     tp2_price             |-> IF side = "BUY"
                               THEN entry_price + PctOf(entry_price, config.tp2_pct)
                               ELSE entry_price - PctOf(entry_price, config.tp2_pct),
     tp1_hit               |-> FALSE,
     profit_lock_active    |-> FALSE,
     breakeven_lock_active |-> FALSE,
     opened_at_secs        |-> opened_at_secs]

\* current_time_secs.saturating_sub(opened_at_secs)
Elapsed(b, t) == IF t >= b.opened_at_secs THEN t - b.opened_at_secs ELSE 0

\* breakeven + buffer (long) / breakeven - buffer (short)
BreakevenSl(b) ==
    IF b.side = "BUY"
    THEN b.entry_price + PctOf(b.entry_price, BREAKEVEN_BUFFER_PCT)
    ELSE b.entry_price - PctOf(b.entry_price, BREAKEVEN_BUFFER_PCT)

\* "Only tighten, never widen": the candidate replaces the SL only when it is
\* strictly on the favourable side of the current SL.
Tightens(b, cand) ==
    IF b.side = "BUY" THEN cand > b.current_sl_price ELSE cand < b.current_sl_price

\* Profit lock (50 % of the TP1 distance reached).
ProfitLock(b, price) ==
    LET tp1_distance     == Abs(b.tp1_price - b.entry_price)
        current_distance == IF b.side = "BUY" THEN price - b.entry_price
                                              ELSE b.entry_price - price
    IN IF ~b.profit_lock_active /\ 2 * current_distance >= tp1_distance
          /\ Tightens(b, BreakevenSl(b))
       THEN [b EXCEPT !.current_sl_price = BreakevenSl(b), !.profit_lock_active = TRUE]
       ELSE b

\* Breakeven lock (elapsed_fraction >= 0.75; the fraction is 0 when the limit is 0).
BreakevenLock(b, elapsed) ==
    IF ~b.breakeven_lock_active
       /\ b.config.time_limit_secs > 0
       /\ 4 * elapsed >= 3 * b.config.time_limit_secs
       /\ Tightens(b, BreakevenSl(b))
    THEN [b EXCEPT !.current_sl_price = BreakevenSl(b), !.breakeven_lock_active = TRUE]
    ELSE b

\* A tightened SL that creeps one unit further from the current SL on every call.
TightenedSlCreeping(b, elapsed) ==
    IF b.side = "BUY" THEN b.current_sl_price + 1 ELSE b.current_sl_price - 1

\* original_sl + progress * (entry - original_sl),
\* progress = clamp((elapsed_fraction - 0.50) / 0.25, 0, 1)
TightenedSl(b, elapsed) ==
    LET limit       == b.config.time_limit_secs
        num         == Max(0, Min(limit, 4 * elapsed - 2 * limit))
        original_sl == IF b.side = "BUY"
                       THEN b.entry_price - PctOf(b.entry_price, b.config.sl_pct)
                       ELSE b.entry_price + PctOf(b.entry_price, b.config.sl_pct)
    IN original_sl + (num * (b.entry_price - original_sl)) \div limit

\* The same step without the "only tighten" comparison.
ProgressiveTighteningUnguarded(b, elapsed) ==
    IF ~b.breakeven_lock_active /\ ~b.profit_lock_active
       /\ b.config.time_limit_secs > 0
       /\ 2 * elapsed >= b.config.time_limit_secs
    THEN [b EXCEPT !.current_sl_price = TightenedSl(b, elapsed)]
    ELSE b

\* Progressive tightening (elapsed_fraction >= 0.50, no lock active).
ProgressiveTightening(b, elapsed) ==
    IF ~b.breakeven_lock_active /\ ~b.profit_lock_active
       /\ b.config.time_limit_secs > 0
       /\ 2 * elapsed >= b.config.time_limit_secs
       /\ Tightens(b, TightenedSl(b, elapsed))
    THEN [b EXCEPT !.current_sl_price = TightenedSl(b, elapsed)]
    ELSE b

\* A time barrier that fires only after the limit has passed.
TimeExpiredLate(b, elapsed) == elapsed > b.config.time_limit_secs

\* evaluate: the time barrier, checked first
TimeExpired(b, elapsed) == elapsed >= b.config.time_limit_secs

\* A TP1 test that ignores tp1_hit.
Tp1ReportableAlways(b) == TRUE

\* evaluate: TP1 is reported only while tp1_hit is not set
Tp1Reportable(b) == ~b.tp1_hit

\* BarrierState::evaluate: the new state and the returned Option<ExitReason>.
BarrierEvaluate(b, price, time) ==
    LET elapsed == Elapsed(b, time)
        is_long == b.side = "BUY"
    IN IF TimeExpired(b, elapsed)
       THEN [state |-> b, result |-> "TimeBarrier"]
       ELSE
         LET b1 == ProfitLock(b, price)
             b2 == BreakevenLock(b1, elapsed)
             b3 == ProgressiveTightening(b2, elapsed)
         IN IF (is_long /\ price >= b3.tp2_price) \/ (~is_long /\ price <= b3.tp2_price)
            THEN [state |-> b3, result |-> "TakeProfit2"]
            ELSE IF Tp1Reportable(b3)
                    /\ ((is_long /\ price >= b3.tp1_price) \/ (~is_long /\ price <= b3.tp1_price))
            THEN [state |-> [b3 EXCEPT !.tp1_hit = TRUE], result |-> "TakeProfit1"]
            ELSE IF (is_long /\ price <= b3.current_sl_price)
                    \/ (~is_long /\ price >= b3.current_sl_price)
            THEN [state |-> b3, result |-> "StopLoss"]
            ELSE [state |-> b3, result |-> None]

\* impl Display for ExitReason
ExitReasonToString(r) ==
    CASE r = "StopLoss"    -> "SL"
      [] r = "TakeProfit1" -> "TP1"
      [] r = "TakeProfit2" -> "TP2"
      [] r = "TimeBarrier" -> "TIME"

(***************************************************************************)
(* Micro-trail (exit/micro_trail.rs)                                       *)
(* ATR multipliers are tenths, phase boundaries and order-flow factors are *)
(* percent, the tighten multiplier is per mille, orderbook imbalance and   *)
(* VPIN are hundredths, MIN_TRAIL_PCT and VELOCITY_THRESHOLD_PCT are basis *)
(* points.                                                                 *)
(***************************************************************************)
LOOSE_ATR_MULT == 15
STANDARD_ATR_MULT == 10
AGGRESSIVE_ATR_MULT == 5
PHASE_STANDARD_START == 30
PHASE_AGGRESSIVE_START == 60
CVD_TIGHTEN_FACTOR == 70
OB_TIGHTEN_FACTOR == 80
VPIN_TOXIC_TIGHTEN_FACTOR == 50
VPIN_TOXIC_THRESHOLD == 70
OB_ADVERSE_THRESHOLD == 30
VELOCITY_THRESHOLD_PCT == 30
VELOCITY_WINDOW_SECS == 5
MIN_TRAIL_PCT == 20

\* impl Display for TrailPhase
TrailPhaseToString(ph) ==
    CASE ph = "Loose"      -> "LOOSE"
      [] ph = "Standard"   -> "STANDARD"
      [] ph = "Aggressive" -> "AGGRESSIVE"

\* MicroTrailState::new
MicroTrailState_new(is_long, entry_price, tp1_price, atr_5m) ==
    LET trail_distance == (atr_5m * LOOSE_ATR_MULT) \div 10 IN
    [is_long                 |-> is_long,
     entry_price             |-> entry_price,
     tp1_price               |-> tp1_price,
     atr_5m                  |-> atr_5m,
     best_price              |-> entry_price,
     trail_price             |-> IF is_long THEN entry_price - trail_distance
                                            ELSE entry_price + trail_distance,
     phase                   |-> "Loose",
     raw_trail_distance      |-> trail_distance,
     adjusted_trail_distance |-> trail_distance,
     velocity_triggered      |-> FALSE,
     price_history           |-> <<>>,
     of_tighten_mult         |-> 1000,
     adjustment_reason       |-> "initial",
     cvd_at_entry            |-> 0]

\* MicroTrailState::set_cvd_at_entry
set_cvd_at_entry(t, cvd) == [t EXCEPT !.cvd_at_entry = cvd]

\* MicroTrailState::update_atr
update_atr(t, new_atr) == IF new_atr > 0 THEN [t EXCEPT !.atr_5m = new_atr] ELSE t

\* evaluate: the best-price update
UpdateBestPrice(t, current_price) ==
    IF t.is_long /\ current_price > t.best_price
    THEN current_price
    ELSE IF ~t.is_long /\ (current_price < t.best_price \/ t.best_price = t.entry_price)
    THEN current_price
    ELSE t.best_price

\* evaluate: the phase from the profit fraction of the TP1 distance
\* (the fraction is 0 when the TP1 distance is 0)
TrailPhaseOf(t, current_price) ==
    LET tp1_distance   == Abs(t.tp1_price - t.entry_price)
        current_profit == IF t.is_long THEN current_price - t.entry_price
                                       ELSE t.entry_price - current_price
    IN IF tp1_distance > 0 /\ 100 * current_profit >= PHASE_AGGRESSIVE_START * tp1_distance
       THEN "Aggressive"
       ELSE IF tp1_distance > 0 /\ 100 * current_profit >= PHASE_STANDARD_START * tp1_distance
       THEN "Standard"
       ELSE "Loose"

\* evaluate: atr_mult of the phase
AtrMult(ph) ==
    CASE ph = "Loose"      -> LOOSE_ATR_MULT
      [] ph = "Standard"   -> STANDARD_ATR_MULT
      [] ph = "Aggressive" -> AGGRESSIVE_ATR_MULT

\* evaluate: the three order-flow tests against the position
CvdAgainst(t, order_flow) ==
    IF t.is_long THEN order_flow.cvd - order_flow.cvd_at_entry < 0
                 ELSE order_flow.cvd - order_flow.cvd_at_entry > 0
ObAgainst(t, order_flow) ==
    IF t.is_long THEN order_flow.orderbook_imbalance < -OB_ADVERSE_THRESHOLD
                 ELSE order_flow.orderbook_imbalance > OB_ADVERSE_THRESHOLD
VpinToxic(order_flow) == order_flow.vpin > VPIN_TOXIC_THRESHOLD

\* evaluate: tighten_mult (per mille) and the reasons pushed with it
TightenMult(t, order_flow) ==
    LET m1 == IF CvdAgainst(t, order_flow) THEN (1000 * CVD_TIGHTEN_FACTOR) \div 100 ELSE 1000
        m2 == IF ObAgainst(t, order_flow) THEN (m1 * OB_TIGHTEN_FACTOR) \div 100 ELSE m1
    IN IF VpinToxic(order_flow) THEN (m2 * VPIN_TOXIC_TIGHTEN_FACTOR) \div 100 ELSE m2
OrderFlowReasons(t, order_flow) ==
    (IF CvdAgainst(t, order_flow) THEN <<"CVD_DIVERGE">> ELSE <<>>)
    \o (IF ObAgainst(t, order_flow) THEN <<"OB_PRESSURE">> ELSE <<>>)
    \o (IF VpinToxic(order_flow) THEN <<"VPIN_TOXIC">> ELSE <<>>)

\* evaluate: push (price, time) and retain the entries of the velocity window
PushHistory(history, current_price, current_time_secs) ==
    LET InWindow(e) == (IF current_time_secs >= e.time THEN current_time_secs - e.time ELSE 0)
                          <= VELOCITY_WINDOW_SECS
    IN SelectSeq(Append(history, [price |-> current_price, time |-> current_time_secs]),
                 InWindow)

\* evaluate: velocity_snap, the adverse move since the oldest entry of the window
VelocitySnap(t, history, current_price) ==
    /\ Len(history) >= 2
    /\ LET oldest == history[1].price
       IN IF t.is_long
          THEN (oldest - current_price) * 10000 > VELOCITY_THRESHOLD_PCT * oldest
          ELSE (current_price - oldest) * 10000 > VELOCITY_THRESHOLD_PCT * oldest

\* evaluate: the velocity shield; snapped tells whether the trail was moved
VelocityShield(t, snap, current_price, min_trail) ==
    LET snapped_price == IF t.is_long THEN current_price - min_trail
                                      ELSE current_price + min_trail
        should_snap   == IF t.is_long THEN snapped_price > t.trail_price
                                      ELSE snapped_price < t.trail_price
    IN IF snap /\ ~t.velocity_triggered
       THEN [state   |-> [t EXCEPT !.velocity_triggered = TRUE,
                                   !.trail_price = IF should_snap THEN snapped_price ELSE @],
             snapped |-> should_snap]
       ELSE [state |-> [t EXCEPT !.velocity_triggered = FALSE], snapped |-> FALSE]

\* The ratchet without the "only tighten" comparison.
RatchetTrailUnguarded(t, trail_distance) ==
    [t EXCEPT !.trail_price = IF t.is_long THEN t.best_price - trail_distance
                                           ELSE t.best_price + trail_distance]

\* evaluate: the ratchet, the trail moves to the candidate only when that tightens
RatchetTrail(t, trail_distance) ==
    LET candidate_trail == IF t.is_long THEN t.best_price - trail_distance
                                        ELSE t.best_price + trail_distance
        should_update   == IF t.is_long THEN candidate_trail > t.trail_price
                                        ELSE candidate_trail < t.trail_price
    IN IF should_update THEN [t EXCEPT !.trail_price = candidate_trail] ELSE t

\* reasons.join("+")
RECURSIVE JoinPlus(_)
JoinPlus(reasons) ==
    IF reasons = <<>> THEN ""
    ELSE IF Len(reasons) = 1 THEN reasons[1]
    ELSE reasons[1] \o "+" \o JoinPlus(Tail(reasons))

\* MicroTrailState::evaluate: the new state and the returned trail_hit
MicroTrailEvaluate(t, current_price, current_time_secs, order_flow) ==
    LET t1   == [t EXCEPT !.best_price = UpdateBestPrice(t, current_price),
                          !.phase = TrailPhaseOf(t, current_price)]
        raw  == (t1.atr_5m * AtrMult(t1.phase)) \div 10
        mult == TightenMult(t1, order_flow)
        min_trail      == PctOf(t1.entry_price, MIN_TRAIL_PCT)
        trail_distance == Max((raw * mult) \div 1000, min_trail)
        history == PushHistory(t1.price_history, current_price, current_time_secs)
        t2   == [t1 EXCEPT !.raw_trail_distance = raw,
                           !.of_tighten_mult = mult,
                           !.adjusted_trail_distance = trail_distance,
                           !.price_history = history]
        vs   == VelocityShield(t2, VelocitySnap(t2, history, current_price), current_price,
                               min_trail)
        t3   == RatchetTrail(vs.state, trail_distance)
        reasons == OrderFlowReasons(t1, order_flow)
                   \o (IF vs.snapped THEN <<"VELOCITY_SNAP">> ELSE <<>>)
        t4   == [t3 EXCEPT !.adjustment_reason =
                              IF reasons = <<>>
                              THEN TrailPhaseToString(t3.phase)
                              ELSE TrailPhaseToString(t3.phase) \o " | " \o JoinPlus(reasons)]
    IN [state |-> t4,
        hit   |-> IF t4.is_long THEN current_price <= t4.trail_price
                                ELSE current_price >= t4.trail_price]

(***************************************************************************)
(* Risk engine (risk.rs)                                                   *)
(***************************************************************************)
\* RiskEngine::new arguments as AppState::new passes them: capital 1000.0 (in
\* PnL units of 1e-4), max_daily_loss_pct and max_drawdown_pct in basis points.
Capital == 10000000
MaxDailyLossBp == 300
MaxDrawdownBp == 500
MaxConsecutiveLosses == 2
MaxDailyTrades == 3

\* RiskEngine::new: the initial Inner
RiskEngine_new(today) ==
    [risk_mode          |-> "Normal",
     daily_pnl          |-> 0,
     consecutive_losses |-> 0,
     daily_trades_count |-> 0,
     daily_wins         |-> 0,
     daily_losses       |-> 0,
     max_drawdown_today |-> 0,
     peak_equity_today  |-> Capital,
     current_date       |-> today,
     killed             |-> FALSE]

\* (-daily_pnl) / capital >= max_daily_loss_pct * num / den
\* (both sides divided by 10000, which divides Capital, to stay in 32 bits)
DailyLossAtLeast(s, num, den) ==
    Capital > 0 /\ (-s.daily_pnl) * den >= MaxDailyLossBp * num * (Capital \div 10000)

\* RiskEngine::compute_risk_mode
compute_risk_mode(s) ==
    IF s.killed THEN "KILLED"
    ELSE IF \/ DailyLossAtLeast(s, 1, 1)
            \/ s.consecutive_losses >= MaxConsecutiveLosses
            \/ s.max_drawdown_today >= MaxDrawdownBp
            \/ s.daily_trades_count >= MaxDailyTrades
         THEN "BREAKER_TRIPPED"
    ELSE IF \/ DailyLossAtLeast(s, 3, 4)
            \/ 4 * s.consecutive_losses >= 3 * MaxConsecutiveLosses
         THEN "Cautious"
    ELSE "Normal"

\* A do_reset that also releases the kill latch.
do_reset_clearing_kill(s, date) ==
    [s EXCEPT !.daily_pnl = 0, !.consecutive_losses = 0, !.daily_trades_count = 0,
              !.daily_wins = 0, !.daily_losses = 0, !.max_drawdown_today = 0,
              !.peak_equity_today = Capital, !.current_date = date,
              !.killed = FALSE, !.risk_mode = "Normal"]

\* RiskEngine::do_reset
do_reset(s, date) ==
    [s EXCEPT !.daily_pnl = 0, !.consecutive_losses = 0, !.daily_trades_count = 0,
              !.daily_wins = 0, !.daily_losses = 0, !.max_drawdown_today = 0,
              !.peak_equity_today = Capital, !.current_date = date,
              !.risk_mode = IF s.killed THEN "KILLED" ELSE "Normal"]

\* RiskEngine::record_trade_result, the part under the write lock
RecordBody(s, pnl) ==
    LET s1 == [s EXCEPT !.daily_pnl = @ + pnl,
                        !.daily_trades_count = @ + 1,
                        !.daily_wins = IF pnl >= 0 THEN @ + 1 ELSE @,
                        !.daily_losses = IF pnl >= 0 THEN @ ELSE @ + 1,
                        !.consecutive_losses = IF pnl >= 0 THEN 0 ELSE @ + 1]
        current_equity == Capital + s1.daily_pnl
        peak == Max(s1.peak_equity_today, current_equity)
        \* (peak - equity) / peak in basis points; PnL values are multiples
        \* of 100, so peak \div 100 is exact
        drawdown == IF peak > 0 THEN ((peak - current_equity) * 100) \div (peak \div 100) ELSE 0
        s2 == [s1 EXCEPT !.peak_equity_today = peak,
                         !.max_drawdown_today = Max(@, drawdown)]
    IN [s2 EXCEPT !.risk_mode = compute_risk_mode(s2)]

\* A can_trade whose trade limit blocks only at exactly max_daily_trades.
CanTradeBodyExactLimit(s) ==
    IF s.killed THEN [allowed |-> FALSE, reason |-> "Kill"]
    ELSE IF DailyLossAtLeast(s, 1, 1) THEN [allowed |-> FALSE, reason |-> "DailyLoss"]
    ELSE IF s.consecutive_losses >= MaxConsecutiveLosses
         THEN [allowed |-> FALSE, reason |-> "ConsecutiveLosses"]
    ELSE IF s.max_drawdown_today >= MaxDrawdownBp
         THEN [allowed |-> FALSE, reason |-> "MaxDrawdown"]
    ELSE IF s.daily_trades_count = MaxDailyTrades
         THEN [allowed |-> FALSE, reason |-> "TradeLimit"]
    ELSE [allowed |-> TRUE, reason |-> None]

\* RiskEngine::can_trade, the part under the read lock
CanTradeBody(s) ==
    IF s.killed THEN [allowed |-> FALSE, reason |-> "Kill"]
    ELSE IF DailyLossAtLeast(s, 1, 1) THEN [allowed |-> FALSE, reason |-> "DailyLoss"]
    ELSE IF s.consecutive_losses >= MaxConsecutiveLosses
         THEN [allowed |-> FALSE, reason |-> "ConsecutiveLosses"]
    ELSE IF s.max_drawdown_today >= MaxDrawdownBp
         THEN [allowed |-> FALSE, reason |-> "MaxDrawdown"]
    ELSE IF s.daily_trades_count >= MaxDailyTrades
         THEN [allowed |-> FALSE, reason |-> "TradeLimit"]
    ELSE [allowed |-> TRUE, reason |-> None]

\* RiskEngine::kill
KillBody(s) == [s EXCEPT !.killed = TRUE, !.risk_mode = "KILLED"]

\* RiskEngine::maybe_reset_daily run without interruption (today read, compared
\* and reset in one piece), as a single caller sees it.
maybe_reset_daily(s, today) == IF s.current_date # today THEN do_reset(s, today) ELSE s

(***************************************************************************)
(* SpecRisk: tasks calling the risk engine while the UTC date advances.    *)
(* A call is four steps, as in the code: Utc::now() is read first, then    *)
(* the read-locked date check, then the write-locked double check and      *)
(* reset, then the method body under its own lock.                         *)
(***************************************************************************)
NumTasks == 2
MaxDay == 2
MaxRecords == 3
LossPnl == 150000
WinPnl == 100000

Tasks == 1..NumTasks
RiskOps == {"can_trade", "record_trade_result", "get_state"}
PnLs == {-LossPnl, WinPnl}

\* entry of can_trade / record_trade_result / get_state and the first
\* statement of maybe_reset_daily: today = Utc::now()
RBegin(t, op, pnl) ==
    /\ tpc[t] = "idle"
    /\ op = "record_trade_result" => risk.daily_trades_count < MaxRecords
    /\ op # "record_trade_result" => pnl = WinPnl
    /\ tpc' = [tpc EXCEPT ![t] = "read"]
    /\ top' = [top EXCEPT ![t] = op]
    /\ targ' = [targ EXCEPT ![t] = pnl]
    /\ ttoday' = [ttoday EXCEPT ![t] = wallDate]
    /\ tres' = [tres EXCEPT ![t] = None]
    /\ tkill' = [tkill EXCEPT ![t] = killCalled]
    /\ UNCHANGED <<risk, wallDate, autoResets, killCalled, adminReset>>
    /\ UNCHANGED <<unitVars, pmVars, sysVars>>

\* maybe_reset_daily: the read-locked comparison
RMaybeRead(t) ==
    /\ tpc[t] = "read"
    /\ tpc' = [tpc EXCEPT ![t] = IF risk.current_date = ttoday[t] THEN "body" ELSE "write"]
    /\ UNCHANGED <<risk, wallDate, top, targ, ttoday, tres, tkill, autoResets, killCalled, adminReset>>
    /\ UNCHANGED <<unitVars, pmVars, sysVars>>

\* maybe_reset_daily: the write-locked double check and do_reset
RMaybeWrite(t) ==
    /\ tpc[t] = "write"
    /\ IF risk.current_date # ttoday[t]
       THEN /\ risk' = do_reset(risk, ttoday[t])
            /\ autoResets' = autoResets + 1
       ELSE UNCHANGED <<risk, autoResets>>
    /\ tpc' = [tpc EXCEPT ![t] = "body"]
    /\ UNCHANGED <<wallDate, top, targ, ttoday, tres, tkill, killCalled, adminReset>>
    /\ UNCHANGED <<unitVars, pmVars, sysVars>>

\* the method body under the state lock, and the return
RBody(t) ==
    /\ tpc[t] = "body"
    /\ risk' = IF top[t] = "record_trade_result" THEN RecordBody(risk, targ[t]) ELSE risk
    /\ tres' = [tres EXCEPT ![t] = IF top[t] # "can_trade" THEN None
                                    ELSE IF CanTradeBody(risk).allowed THEN "allowed"
                                    ELSE "blocked"]
    /\ tpc' = [tpc EXCEPT ![t] = "idle"]
    /\ UNCHANGED <<wallDate, top, targ, ttoday, tkill, autoResets, killCalled, adminReset>>
    /\ UNCHANGED <<unitVars, pmVars, sysVars>>

\* midnight UTC passes
RMidnight ==
    /\ wallDate < MaxDay
    /\ wallDate' = wallDate + 1
    /\ UNCHANGED <<risk, taskVars>>
    /\ UNCHANGED <<unitVars, pmVars, sysVars>>

\* RiskEngine::kill
RKill ==
    /\ risk' = KillBody(risk)
    /\ killCalled' = TRUE
    /\ UNCHANGED <<wallDate, tpc, top, targ, ttoday, tres, tkill, autoResets, adminReset>>
    /\ UNCHANGED <<unitVars, pmVars, sysVars>>

\* RiskEngine::reset_daily (today is read under the write lock)
RResetDaily ==
    /\ risk' = do_reset(risk, wallDate)
    /\ adminReset' = (adminReset \/ killCalled)
    /\ UNCHANGED <<wallDate, tpc, top, targ, ttoday, tres, tkill, autoResets, killCalled>>
    /\ UNCHANGED <<unitVars, pmVars, sysVars>>

TaskIdle ==
    /\ tpc = [t \in Tasks |-> "idle"]
    /\ top = [t \in Tasks |-> "get_state"]
    /\ targ = [t \in Tasks |-> WinPnl]
    /\ ttoday = [t \in Tasks |-> 0]
    /\ tres = [t \in Tasks |-> None]
    /\ tkill = [t \in Tasks |-> FALSE]
    /\ autoResets = 0
    /\ killCalled = FALSE
    /\ adminReset = FALSE

RiskIdle ==
    /\ wallDate = 0
    /\ risk = RiskEngine_new(0)

(***************************************************************************)
(* Position manager (position_engine.rs)                                   *)
(***************************************************************************)
TRAILING_STOP_PCT == 50
TP1_CLOSE_FRACTION == 60

Direction(side) == IF side = "BUY" THEN 1 ELSE -1

\* PositionManager::open_position: the Position pushed onto `open`
NewPosition(id, symbol, side, entry_price, quantity, stop_loss, take_profit_1, take_profit_2) ==
    [id             |-> id,
     symbol         |-> symbol,
     side           |-> side,
     entry_price    |-> entry_price,
     quantity       |-> quantity,
     current_price  |-> entry_price,
     unrealized_pnl |-> 0,
     stop_loss      |-> stop_loss,
     take_profit_1  |-> take_profit_1,
     take_profit_2  |-> take_profit_2,
     trailing_stop  |-> NoneOpt,
     highest_price  |-> entry_price,
     status         |-> "Open",
     close_reason   |-> None,
     realized_pnl   |-> 0]

\* PositionManager::update_price, the loop body for one matching position
UpdatePosition(pos, current_price) ==
    LET p1 == [pos EXCEPT !.current_price = current_price,
                          !.unrealized_pnl = Direction(pos.side) * (current_price - pos.entry_price)
                                             * pos.quantity]
    IN IF pos.side = "BUY"
       THEN IF current_price > pos.highest_price
            THEN [p1 EXCEPT !.highest_price = current_price,
                            !.trailing_stop = Some(current_price - PctOf(current_price, TRAILING_STOP_PCT))]
            ELSE p1
       ELSE IF pos.highest_price = pos.entry_price \/ current_price < pos.highest_price
            THEN [p1 EXCEPT !.highest_price = current_price,
                            !.trailing_stop = Some(current_price + PctOf(current_price, TRAILING_STOP_PCT))]
            ELSE p1

\* PositionManager::update_price
update_price(op, symbol, current_price) ==
    [i \in DOMAIN op |-> IF op[i].symbol = symbol THEN UpdatePosition(op[i], current_price)
                                                  ELSE op[i]]

\* The TP1 branch entered whatever the status.
Tp1PartialAllowedAlways(pos) == TRUE

\* if pos.status == PositionStatus::Open
Tp1PartialAllowed(pos) == pos.status = "Open"

\* PositionManager::check_exits, the loop body for one position:
\* the position afterwards and the exit reason pushed (None when nothing is pushed)
CheckExit(pos) ==
    LET is_long == pos.side = "BUY"
        price   == pos.current_price
        sl_hit  == IF is_long THEN price <= pos.stop_loss ELSE price >= pos.stop_loss
        tp2_hit == IF is_long THEN price >= pos.take_profit_2 ELSE price <= pos.take_profit_2
        tp1_hit == IF is_long THEN price >= pos.take_profit_1 ELSE price <= pos.take_profit_1
        close_qty == (pos.quantity * TP1_CLOSE_FRACTION) \div 100
        partial_pnl == Direction(pos.side) * (price - pos.entry_price) * close_qty
        trail_hit == /\ IsSome(pos.trailing_stop)
                     /\ IF is_long THEN price <= Unwrap(pos.trailing_stop)
                                   ELSE price >= Unwrap(pos.trailing_stop)
    IN IF sl_hit THEN [pos |-> pos, exit |-> "StopLoss"]
       ELSE IF tp2_hit THEN [pos |-> pos, exit |-> "TakeProfit2"]
       ELSE IF Tp1PartialAllowed(pos) /\ tp1_hit
            THEN [pos |-> [pos EXCEPT !.quantity = @ - close_qty,
                                      !.realized_pnl = @ + partial_pnl,
                                      !.status = "PartialTP1"],
                  exit |-> None]
       ELSE IF trail_hit THEN [pos |-> pos, exit |-> "TrailingStop"]
       ELSE [pos |-> pos, exit |-> None]

\* PositionManager::check_exits: `open` afterwards and the (id, reason) list
check_exits(op) ==
    LET hit == {i \in DOMAIN op : CheckExit(op[i]).exit # None}
        F[i \in 0..Len(op)] ==
            IF i = 0 THEN <<>>
            ELSE IF i \in hit THEN Append(F[i - 1], <<op[i].id, CheckExit(op[i]).exit>>)
            ELSE F[i - 1]
    IN [open  |-> [i \in DOMAIN op |-> CheckExit(op[i]).pos],
        exits |-> F[Len(op)]]

\* Vec::remove(idx)
RemoveAt(seq, idx) == [i \in 1..(Len(seq) - 1) |-> IF i < idx THEN seq[i] ELSE seq[i + 1]]

\* open.iter().position(|p| p.id == id): the first index, 0 when there is none
IndexOfId(op, id) ==
    IF \E i \in DOMAIN op : op[i].id = id
    THEN CHOOSE i \in DOMAIN op : op[i].id = id /\ \A j \in 1..(i - 1) : op[j].id # id
    ELSE 0

\* The closing bookkeeping with the final PnL overwriting what TP1 banked.
ClosedPositionOverwritingPnl(pos, reason, close_price) ==
    [pos EXCEPT !.realized_pnl = Direction(pos.side) * (close_price - pos.entry_price) * pos.quantity,
                !.current_price = close_price,
                !.unrealized_pnl = 0,
                !.status = "Closed",
                !.close_reason = reason,
                !.quantity = 0]

\* PositionManager::close_position, the bookkeeping on the removed position
ClosedPosition(pos, reason, close_price) ==
    [pos EXCEPT !.realized_pnl = @ + Direction(pos.side) * (close_price - pos.entry_price)
                                     * pos.quantity,
                !.current_price = close_price,
                !.unrealized_pnl = 0,
                !.status = "Closed",
                !.close_reason = reason,
                !.quantity = 0]

\* PositionManager::close_position: Some(total_pnl) or None, and both lists afterwards
close_position(op, cl, id, reason, close_price) ==
    LET idx == IndexOfId(op, id) IN
    IF idx = 0
    THEN [found |-> FALSE, pnl |-> 0, open |-> op, closed |-> cl]
    ELSE LET pos == ClosedPosition(op[idx], reason, close_price)
         IN [found |-> TRUE, pnl |-> pos.realized_pnl,
             open |-> RemoveAt(op, idx), closed |-> Append(cl, pos)]

(***************************************************************************)
(* SpecPM: the position manager driven through its public methods          *)
(***************************************************************************)
MaxPositions == 2
PMQuantity == 20

Symbols == <<"BTCUSDT", "ETHUSDT">>
SymbolSet == {Symbols[i] : i \in DOMAIN Symbols}
Ids == 1..MaxPositions
PMPrices == {EntryPrice + k * PriceStep : k \in {-3, 3, 4}}
PMReasons == {"StopLoss", "TakeProfit2"}

\* history of the quantity taken off each position by a check_exits pass
PartialFills(op, f) ==
    [id \in Ids |->
        IF \E i \in DOMAIN op : op[i].id = id /\ CheckExit(op[i]).pos.quantity # op[i].quantity
        THEN LET i == IndexOfId(op, id)
             IN Append(f[id], [price |-> op[i].current_price,
                               qty   |-> op[i].quantity - CheckExit(op[i]).pos.quantity])
        ELSE f[id]]

\* open_position(symbol, side, entry, qty, sl, tp1, tp2)
PMOpen(symbol, side, qty) ==
    /\ nextId <= MaxPositions
    /\ open' = Append(open, NewPosition(nextId, symbol, side, EntryPrice, qty,
                        EntryPrice - Direction(side) * 2 * PriceStep,
                        EntryPrice + Direction(side) * 2 * PriceStep,
                        EntryPrice + Direction(side) * 4 * PriceStep))
    /\ origQty' = [origQty EXCEPT ![nextId] = qty]
    /\ nextId' = nextId + 1
    /\ UNCHANGED <<closed, fills>>
    /\ UNCHANGED <<unitVars, riskVars, taskVars, sysVars>>

\* update_price(symbol, price)
PMUpdatePrice(symbol, price) ==
    /\ open' = update_price(open, symbol, price)
    /\ UNCHANGED <<closed, nextId, origQty, fills>>
    /\ UNCHANGED <<unitVars, riskVars, taskVars, sysVars>>

\* check_exits()
PMCheckExits ==
    /\ open' = check_exits(open).open
    /\ fills' = PartialFills(open, fills)
    /\ UNCHANGED <<closed, nextId, origQty>>
    /\ UNCHANGED <<unitVars, riskVars, taskVars, sysVars>>

\* close_position(id, reason, close_price)
PMClose(id, reason, close_price) ==
    LET r == close_position(open, closed, id, reason, close_price) IN
    /\ open' = r.open
    /\ closed' = r.closed
    /\ fills' = IF r.found
                THEN [fills EXCEPT ![id] = Append(@, [price |-> close_price,
                                                     qty |-> open[IndexOfId(open, id)].quantity])]
                ELSE fills
    /\ UNCHANGED <<nextId, origQty>>
    /\ UNCHANGED <<unitVars, riskVars, taskVars, sysVars>>

PMIdle ==
    /\ open = <<>>
    /\ closed = <<>>
    /\ nextId = 1
    /\ origQty = [id \in Ids |-> 0]
    /\ fills = [id \in Ids |-> <<>>]

(***************************************************************************)
(* Decision path: regime label, scorer, insurance gates, smart filters,    *)
(* proposal, decision envelope                                             *)
(***************************************************************************)
MIN_CANDLES == 30
ENTRY_THRESHOLD == 15
MOMENTUM_THRESHOLD == 12
MAX_SPREAD_BPS == 15
sl_atr_multiplier == 15
tp1_atr_multiplier == 25
tp2_atr_multiplier == 40
min_sl_pct == 40
min_tp1_pct == 60
min_tp2_pct == 100
base_position_pct == 200

\* impl Default for StrategyParams
StrategyParams_default ==
    [sl_atr_multiplier  |-> sl_atr_multiplier,
     tp1_atr_multiplier |-> tp1_atr_multiplier,
     tp2_atr_multiplier |-> tp2_atr_multiplier,
     min_sl_pct         |-> min_sl_pct,
     min_tp1_pct        |-> min_tp1_pct,
     min_tp2_pct        |-> min_tp2_pct,
     base_position_pct  |-> base_position_pct]

MarketRegimes == {"Trending", "Ranging", "Volatile", "Squeeze", "Dead"}

\* impl Display for MarketRegime
MarketRegimeToString(r) ==
    CASE r = "Trending" -> "TRENDING"
      [] r = "Ranging"  -> "RANGING"
      [] r = "Volatile" -> "VOLATILE"
      [] r = "Squeeze"  -> "SQUEEZE"
      [] r = "Dead"     -> "DEAD"

\* evaluate_symbol step 3: regime_state.map(|r| r.regime.to_string()).unwrap_or("Ranging")
regime_label(rs) == IF rs = None THEN "Ranging" ELSE MarketRegimeToString(rs)

\* WeightedScorer::score, the decision from total_score (hundredths)
score_decision(total_score) ==
    IF total_score > ENTRY_THRESHOLD THEN "BUY"
    ELSE IF total_score < -ENTRY_THRESHOLD THEN "SELL"
    ELSE "HOLD"

\* RiskEngine::can_trade: maybe_reset_daily, then the checks
can_trade(s, today) ==
    LET s1 == maybe_reset_daily(s, today)
    IN [state |-> s1, allowed |-> CanTradeBody(s1).allowed, reason |-> CanTradeBody(s1).reason]

\* A record_trade_result that drops the result.
record_trade_result_dropped(s, today, pnl) == s

\* RiskEngine::record_trade_result: maybe_reset_daily, then the bookkeeping
record_trade_result(s, today, pnl) == RecordBody(maybe_reset_daily(s, today), pnl)

\* Gate 3: the regime's Display string compared with "Dead"
Gate3Blocks(rs) == rs # None /\ MarketRegimeToString(rs) = "Dead"

\* Gate 4 with the comparison off by one.
Gate4BlocksOnlyAbove(op, max_positions) == Len(op) > max_positions

\* Gate 4: open.len() >= max_positions
Gate4Blocks(op, max_positions) == Len(op) >= max_positions

\* Gate 5 never finding a duplicate.
Gate5BlocksNever(op, symbol) == FALSE

\* Gate 5: open.iter().any(|p| p.symbol == symbol)
Gate5Blocks(op, symbol) == \E i \in DOMAIN op : op[i].symbol = symbol

\* Gate 6: spread_bps(symbol) is Some(spread) with spread > MAX_SPREAD_BPS
Gate6Blocks(spread) == IsSome(spread) /\ Unwrap(spread) > MAX_SPREAD_BPS

\* AppState.no_go_reason: initialised to None and written nowhere
no_go_reason == None

\* InsuranceGate::check_all: the block reason (None when every gate passes) and
\* the risk engine state afterwards (can_trade runs the daily reset)
check_all(mode, rs, op, max_positions, symbol, spread, s, today) ==
    IF mode = "Killed" THEN [reason |-> "Trading mode is KILLED", risk |-> s]
    ELSE IF mode = "Paused" THEN [reason |-> "Trading mode is PAUSED", risk |-> s]
    ELSE IF Gate3Blocks(rs) THEN [reason |-> "Market regime is DEAD", risk |-> s]
    ELSE IF Gate4Blocks(op, max_positions)
         THEN [reason |-> "Max concurrent positions reached", risk |-> s]
    ELSE IF Gate5Blocks(op, symbol)
         THEN [reason |-> "Already have an open position", risk |-> s]
    ELSE IF Gate6Blocks(spread) THEN [reason |-> "Spread too wide", risk |-> s]
    ELSE IF ~can_trade(s, today).allowed
         THEN [reason |-> "Risk engine blocked", risk |-> can_trade(s, today).state]
    ELSE IF no_go_reason # None
         THEN [reason |-> "No-go reason active", risk |-> can_trade(s, today).state]
    ELSE [reason |-> None, risk |-> can_trade(s, today).state]

\* SmartFilterEngine::evaluate, adaptive threshold: the minimum |score| for the
\* regime label it is handed (hundredths)
adaptive_min(label) ==
    CASE label = "Trending" -> 10
      [] label = "Ranging"  -> 18
      [] label = "Volatile" -> 20
      [] label = "Squeeze"  -> 15
      [] label = "Dead"     -> 99900
      [] OTHER              -> 15

\* SmartFilterEngine::evaluate.  htf_pass is the verdict of the HTF gate on the
\* candle data; the block reason, None when every filter passes.
SmartFilterEvaluate(htf_pass, momentum_on, adaptive_on, label, score) ==
    IF ~htf_pass THEN "HTF Gate"
    ELSE IF momentum_on /\ Abs(score) < MOMENTUM_THRESHOLD THEN "Score Momentum"
    ELSE IF adaptive_on /\ Abs(score) < adaptive_min(label) THEN "Adaptive Threshold"
    ELSE None

\* DecisionEnvelope::allow
DecisionEnvelope_allow(symbol, side, strategy_name) ==
    [symbol                    |-> symbol,
     side                      |-> side,
     strategy_name             |-> strategy_name,
     data_quality_verdict      |-> "PASS",
     insurance_verdict         |-> "PASS",
     risk_verdict              |-> "PASS",
     execution_quality_verdict |-> "PASS",
     final_decision            |-> "ALLOW",
     blocking_layer            |-> None,
     reason                    |-> None]

\* A blocked envelope that still carries the ALLOW decision.
DecisionEnvelope_blocked_allowing(symbol, side, strategy_name, blocking_layer, reason) ==
    [DecisionEnvelope_allow(symbol, side, strategy_name)
        EXCEPT !.blocking_layer = blocking_layer, !.reason = reason]

\* DecisionEnvelope::blocked
DecisionEnvelope_blocked(symbol, side, strategy_name, blocking_layer, reason) ==
    [symbol                    |-> symbol,
     side                      |-> side,
     strategy_name             |-> strategy_name,
     data_quality_verdict      |-> "PASS",
     insurance_verdict         |-> "PASS",
     risk_verdict              |-> "PASS",
     execution_quality_verdict |-> "PASS",
     final_decision            |-> "BLOCK",
     blocking_layer            |-> blocking_layer,
     reason                    |-> reason]

\* evaluate_symbol steps 8-10: the TradeProposal (quantity may be zero)
BuildProposal(params, symbol, side, current_price, atr, usdt_balance, label, score) ==
    LET sl_dist  == Max((atr * params.sl_atr_multiplier) \div 10,
                        PctOf(current_price, params.min_sl_pct))
        tp1_dist == Max((atr * params.tp1_atr_multiplier) \div 10,
                        PctOf(current_price, params.min_tp1_pct))
        tp2_dist == Max((atr * params.tp2_atr_multiplier) \div 10,
                        PctOf(current_price, params.min_tp2_pct))
        d        == IF side = "BUY" THEN 1 ELSE -1
    IN [symbol        |-> symbol,
        side          |-> side,
        entry_price   |-> current_price,
        quantity      |-> IF current_price > 0
                          THEN (usdt_balance * params.base_position_pct) \div current_price ELSE 0,
        stop_loss     |-> current_price - d * sl_dist,
        take_profit_1 |-> current_price + d * tp1_dist,
        take_profit_2 |-> current_price + d * tp2_dist,
        confidence    |-> Abs(score),
        regime        |-> label,
        score         |-> score]

\* StrategyEngine::evaluate_symbol.  `inp` is what the call reads from the
\* market data and from the filter flags of the runtime config; the result is
\* the envelope, the Option<TradeProposal> and the risk engine state afterwards.
evaluate_symbol(symbol, inp, mode, rs, op, max_positions, params, s, today) ==
    LET label    == regime_label(rs)
        side     == score_decision(inp.score)
        ins      == check_all(mode, rs, op, max_positions, symbol, inp.spread, s, today)
        smart    == SmartFilterEvaluate(inp.htf_pass, inp.enable_score_momentum,
                                        inp.enable_adaptive_threshold, label, inp.score)
        prop     == BuildProposal(params, symbol, side, inp.price, Unwrap(inp.atr), inp.usdt_balance,
                                  label, inp.score)
        Blocked(sd, layer, reason, r) ==
            [envelope |-> DecisionEnvelope_blocked(symbol, sd, "AuroraV3", layer, reason),
             proposal |-> NoneOpt, risk |-> r]
    IN IF inp.n_candles < MIN_CANDLES
       THEN Blocked("BUY", "DataQuality", "Insufficient 5M candles", s)
       ELSE IF inp.price <= 0 \/ ~IsSome(inp.atr)
       THEN Blocked("BUY", "DataQuality", "Invalid price or ATR not ready", s)
       ELSE IF side = "HOLD"
       THEN Blocked("HOLD", "Strategy", "Score below threshold", s)
       ELSE IF ins.reason # None
       THEN Blocked(side, "Insurance", ins.reason, ins.risk)
       ELSE IF smart # None
       THEN Blocked(side, "SmartFilter", smart, ins.risk)
       ELSE IF prop.quantity <= 0
       THEN Blocked(side, "PositionSizing", "Computed quantity is zero", ins.risk)
       ELSE [envelope |-> [DecisionEnvelope_allow(symbol, side, "AuroraV3")
                              EXCEPT !.reason = "Score | Regime | ATR | SL | TP1 | TP2"],
             proposal |-> Some(prop),
             risk     |-> ins.risk]

(***************************************************************************)
(* Spec: the loops of main.rs and the control API over the shared state.   *)
(* The run stays within one UTC day (the date boundary is SpecRisk's).     *)
(***************************************************************************)
MaxConcurrent == 2
MaxVersion == 7
ClockStep == 900
MaxTicks == 1

RegimeInputs == {"Ranging", "Dead"}
SysPrices == {EntryPrice - 2 * PriceStep, EntryPrice + 3 * PriceStep}

\* What one evaluate_symbol call can read: a market that passes every check,
\* with each score, and the same market with one reading changed.
GoodMarket ==
    [n_candles |-> 30, price |-> EntryPrice, atr |-> Some(20), score |-> 20,
     spread |-> Some(10), htf_pass |-> TRUE, usdt_balance |-> 1000,
     enable_score_momentum |-> TRUE, enable_adaptive_threshold |-> TRUE]
MarketInputs ==
    {[GoodMarket EXCEPT !.score = sc] : sc \in {0, 16, 20}}
    \cup {[GoodMarket EXCEPT !.n_candles = 29], [GoodMarket EXCEPT !.price = 0],
          [GoodMarket EXCEPT !.atr = NoneOpt], [GoodMarket EXCEPT !.spread = NoneOpt],
          [GoodMarket EXCEPT !.spread = Some(20)], [GoodMarket EXCEPT !.htf_pass = FALSE],
          [GoodMarket EXCEPT !.usdt_balance = 0],
          [GoodMarket EXCEPT !.enable_adaptive_threshold = FALSE, !.score = 16],
          [GoodMarket EXCEPT !.enable_score_momentum = FALSE]}

\* AppState::increment_version: fetch_add(1) (the u64 counter starts at 1 and stays far from 2^64)
increment_version(v) == v + 1

\* the strategy loop moves on: the next symbol, or the end of the tick
StratAdvance ==
    /\ stratPc' = IF stratIdx < Len(Symbols) THEN "eval" ELSE "idle"
    /\ stratIdx' = IF stratIdx < Len(Symbols) THEN stratIdx + 1 ELSE 1
    /\ proposal' = NoneOpt
    /\ regId' = 0

\* strategy loop: interval.tick(), the symbol list read
StratTick ==
    /\ stratPc = "idle"
    /\ nextId <= MaxPositions
    /\ stratPc' = "eval"
    /\ stratIdx' = 1
    /\ tickEnvs' = [s \in SymbolSet |-> 0]
    /\ UNCHANGED <<proposal, envelope, evalRegime, regId>>
    /\ UNCHANGED <<cfgVars, regime, now, mapVars, toClose, state_version>>
    /\ UNCHANGED <<unitVars, riskVars, taskVars, pmVars>>

\* strategy loop: evaluate_symbol(state, symbol)
StratEvaluate(inp) ==
    /\ stratPc = "eval"
    /\ nextId <= MaxPositions
    /\ LET r == evaluate_symbol(Symbols[stratIdx], inp, trading_mode, regime, open,
                                max_concurrent_positions, strategy_params, risk,
                                wallDate)
       IN /\ envelope' = Some(r.envelope)
          /\ proposal' = r.proposal
          /\ risk' = r.risk
    /\ evalRegime' = regime
    /\ stratPc' = "push"
    /\ UNCHANGED <<stratIdx, tickEnvs, regId>>
    /\ UNCHANGED <<cfgVars, regime, now, mapVars, toClose, state_version>>
    /\ UNCHANGED <<unitVars, wallDate, taskVars, pmVars>>

\* strategy loop: push_decision(envelope), then `if let Some(prop) = proposal`
StratPushDecision ==
    /\ state_version < MaxVersion
    /\ state_version' = increment_version(state_version)
    /\ stratPc = "push"
    /\ tickEnvs' = [tickEnvs EXCEPT ![Symbols[stratIdx]] = @ + 1]
    /\ envelope' = NoneOpt
    /\ evalRegime' = None
    /\ IF IsSome(proposal)
       THEN /\ stratPc' = "exec"
            /\ UNCHANGED <<stratIdx, proposal, regId>>
       ELSE StratAdvance
    /\ UNCHANGED <<cfgVars, regime, now, mapVars, toClose>>
    /\ UNCHANGED <<unitVars, riskVars, taskVars, pmVars>>

\* strategy loop: execute_proposal(..., is_demo).  is_demo is the account mode
\* as the tick read it, order_ok the outcome of place_order on the live path.
StratExecute(is_demo, order_ok) ==
    /\ stratPc = "exec"
    /\ LET prop == Unwrap(proposal)
           ct   == can_trade(risk, wallDate)
       IN /\ risk' = ct.state
          /\ IF ct.allowed /\ (is_demo \/ order_ok)
             THEN \* Simulated / Placed
                  /\ open' = Append(open, NewPosition(nextId, prop.symbol, prop.side,
                                        prop.entry_price, prop.quantity, prop.stop_loss,
                                        prop.take_profit_1, prop.take_profit_2))
                  /\ origQty' = [origQty EXCEPT ![nextId] = prop.quantity]
                  /\ nextId' = nextId + 1
                  /\ stratPc' = "regBarrier"
                  /\ UNCHANGED <<closed, fills, stratIdx, proposal, regId>>
             ELSE \* Blocked / Error
                  /\ StratAdvance
                  /\ UNCHANGED pmVars
    /\ UNCHANGED <<envelope, evalRegime, tickEnvs>>
    /\ UNCHANGED <<cfgVars, regime, now, mapVars, toClose, state_version>>
    /\ UNCHANGED <<unitVars, wallDate, taskVars>>

\* open.iter().rev().find(|p| p.symbol == symbol): the last index, 0 when none
LastIndexOfSymbol(op, symbol) ==
    IF \E i \in DOMAIN op : op[i].symbol = symbol
    THEN CHOOSE i \in DOMAIN op :
            op[i].symbol = symbol /\ \A j \in (i + 1)..Len(op) : op[j].symbol # symbol
    ELSE 0

\* strategy loop, registration: the BarrierState of the new position
NewBarrierFor(prop, now_secs) ==
    LET atr_pct == IF prop.entry_price > 0
                   THEN (Abs(prop.stop_loss - prop.entry_price) * 10000) \div prop.entry_price
                   ELSE 50
    IN BarrierState_new(from_atr(atr_pct, prop.regime), prop.entry_price, prop.side, now_secs)

\* strategy loop, registration: the MicroTrailState of the new position, with
\* the CVD of the symbol's trade processor captured at entry
NewTrailFor(prop, cvd_at_entry) ==
    set_cvd_at_entry(MicroTrailState_new(prop.side = "BUY", prop.entry_price,
                                         prop.take_profit_1,
                                         Abs(prop.stop_loss - prop.entry_price)),
                     cvd_at_entry)

\* strategy loop: find the new position, build its BarrierState, insert it
StratRegBarrier ==
    /\ stratPc = "regBarrier"
    /\ LET prop    == Unwrap(proposal)
           idx     == LastIndexOfSymbol(open, prop.symbol)
           barrier == NewBarrierFor(prop, now)
       IN IF idx = 0
          THEN StratAdvance /\ UNCHANGED barriers
          ELSE /\ barriers' = [barriers EXCEPT ![open[idx].id] = Some(barrier)]
               /\ regId' = open[idx].id
               /\ stratPc' = "regTrail"
               /\ UNCHANGED <<stratIdx, proposal>>
    /\ UNCHANGED <<envelope, evalRegime, tickEnvs, trails>>
    /\ UNCHANGED <<cfgVars, regime, now, toClose, state_version>>
    /\ UNCHANGED <<unitVars, riskVars, taskVars, pmVars>>

\* strategy loop: build the MicroTrailState of the new position, insert it
StratRegTrail ==
    /\ stratPc = "regTrail"
    /\ LET prop == Unwrap(proposal)
       IN trails' = [trails EXCEPT ![regId] = Some(NewTrailFor(prop, 0))]
    /\ StratAdvance
    /\ UNCHANGED <<envelope, evalRegime, tickEnvs, barriers>>
    /\ UNCHANGED <<cfgVars, regime, now, toClose, state_version>>
    /\ UNCHANGED <<unitVars, riskVars, taskVars, pmVars>>

\* run_exit_monitor, the evaluation loop under both map locks: the barrier map
\* afterwards and to_close.  trail_hits are the positions whose
\* trail.evaluate(..) returns true in this tick.
ExitScan(op, bmap, tmap, now_secs, micro_trail_enabled, trail_hits) ==
    LET F[i \in 0..Len(op)] ==
            IF i = 0 THEN [barriers |-> bmap, to_close |-> <<>>]
            ELSE LET prev == F[i - 1]
                     pos  == op[i]
                     has_barrier == IsSome(prev.barriers[pos.id])
                     ev   == BarrierEvaluate(Unwrap(prev.barriers[pos.id]), pos.current_price,
                                             now_secs)
                     bm   == IF has_barrier
                             THEN [prev.barriers EXCEPT ![pos.id] = Some(ev.state)]
                             ELSE prev.barriers
                 IN IF pos.current_price <= 0 THEN prev
                    ELSE IF has_barrier /\ ev.result # None
                    THEN [barriers |-> bm,
                          to_close |-> Append(prev.to_close,
                                         [id |-> pos.id, price |-> pos.current_price,
                                          reason |-> ExitReasonToString(ev.result)])]
                    ELSE IF IsSome(tmap[pos.id]) /\ pos.id \in trail_hits /\ micro_trail_enabled
                    THEN [barriers |-> bm,
                          to_close |-> Append(prev.to_close,
                                         [id |-> pos.id, price |-> pos.current_price,
                                          reason |-> "MicroTrail"])]
                    ELSE [barriers |-> bm, to_close |-> prev.to_close]
    IN F[Len(op)]

\* exit monitor: one tick up to the end of the evaluation loop.
\* micro_trail_enabled is the enable_micro_trail flag as the tick reads it.
ExitEvaluate(micro_trail_enabled, trail_hits) ==
    /\ toClose = <<>>
    /\ open # <<>>
    /\ LET r == ExitScan(open, barriers, trails, now, micro_trail_enabled, trail_hits)
       IN /\ barriers' = r.barriers
          /\ toClose' = r.to_close
    /\ UNCHANGED <<cfgVars, regime, now, trails, stratVars, state_version>>
    /\ UNCHANGED <<unitVars, riskVars, taskVars, pmVars>>

\* exit monitor: one iteration of the close loop
ExitClose ==
    /\ toClose # <<>>
    /\ state_version < MaxVersion
    /\ LET e == Head(toClose)
           r == close_position(open, closed, e.id, e.reason, e.price)
       IN IF r.found
          THEN /\ open' = r.open
               /\ closed' = r.closed
               /\ fills' = [fills EXCEPT ![e.id] =
                               Append(@, [price |-> e.price,
                                          qty   |-> open[IndexOfId(open, e.id)].quantity])]
               /\ risk' = record_trade_result(risk, wallDate, r.pnl)
               /\ barriers' = [barriers EXCEPT ![e.id] = NoneOpt]
               /\ trails' = [trails EXCEPT ![e.id] = NoneOpt]
               /\ state_version' = increment_version(state_version)
          ELSE UNCHANGED <<open, closed, fills, risk, barriers, trails, state_version>>
    /\ toClose' = Tail(toClose)
    /\ UNCHANGED <<nextId, origQty, wallDate>>
    /\ UNCHANGED <<cfgVars, regime, now, stratVars>>
    /\ UNCHANGED <<unitVars, taskVars>>

\* price-update loop: update_price(pos.symbol, last_price) for an open position
PriceUpdate(symbol, price) ==
    /\ \E i \in DOMAIN open : open[i].symbol = symbol
    /\ price > 0
    /\ open' = update_price(open, symbol, price)
    /\ UNCHANGED <<closed, nextId, origQty, fills>>
    /\ UNCHANGED <<unitVars, riskVars, taskVars, sysVars>>

\* regime loop: regime_detector.update(candles) classifying the market as r
RegimeUpdate(r) ==
    /\ state_version < MaxVersion
    /\ state_version' = increment_version(state_version)
    /\ regime' = r
    /\ UNCHANGED <<cfgVars, now, mapVars, stratVars, toClose>>
    /\ UNCHANGED <<unitVars, riskVars, taskVars, pmVars>>

\* POST control/pause
control_pause ==
    /\ state_version < MaxVersion
    /\ state_version' = increment_version(state_version)
    /\ trading_mode' = "Paused"
    /\ UNCHANGED <<max_concurrent_positions, strategy_params>>
    /\ UNCHANGED <<regime, now, mapVars, stratVars, toClose>>
    /\ UNCHANGED <<unitVars, riskVars, taskVars, pmVars>>

\* POST control/resume
control_resume ==
    /\ state_version < MaxVersion
    /\ state_version' = increment_version(state_version)
    /\ trading_mode' = "Live"
    /\ UNCHANGED <<max_concurrent_positions, strategy_params>>
    /\ UNCHANGED <<regime, now, mapVars, stratVars, toClose>>
    /\ UNCHANGED <<unitVars, riskVars, taskVars, pmVars>>

\* POST control/kill
control_kill ==
    /\ state_version < MaxVersion
    /\ state_version' = increment_version(state_version)
    /\ trading_mode' = "Killed"
    /\ UNCHANGED <<max_concurrent_positions, strategy_params>>
    /\ UNCHANGED <<regime, now, mapVars, stratVars, toClose>>
    /\ UNCHANGED <<unitVars, riskVars, taskVars, pmVars>>

\* the clock advances
Tick ==
    /\ now + ClockStep <= MaxTicks * ClockStep
    /\ now' = now + ClockStep
    /\ UNCHANGED <<cfgVars, regime, mapVars, stratVars, toClose, state_version>>
    /\ UNCHANGED <<unitVars, riskVars, taskVars, pmVars>>

StratIdle ==
    /\ stratPc = "idle"
    /\ stratIdx = 1
    /\ proposal = NoneOpt
    /\ envelope = NoneOpt
    /\ evalRegime = None
    /\ tickEnvs = [s \in SymbolSet |-> 0]
    /\ regId = 0

\* main(): trading mode Paused forced, empty maps, no regime yet
SysIdle ==
    /\ state_version = 1
    /\ trading_mode = "Paused"
    /\ max_concurrent_positions = 1
    /\ strategy_params = StrategyParams_default
    /\ regime = None
    /\ now = 0
    /\ barriers = [id \in Ids |-> NoneOpt]
    /\ trails = [id \in Ids |-> NoneOpt]
    /\ StratIdle
    /\ toClose = <<>>

(***************************************************************************)
(* Trade stream processor (market_data/trade_stream.rs).  Volumes are      *)
(* price * quantity in integer units; the buy ratio is the exact fraction  *)
(* in lowest terms, 0.5 being 1/2.                                         *)
(***************************************************************************)
MaxTrades == 4
TradePrices == {100, 101}
TradeQuantities == {1, 2}

RECURSIVE GCD(_, _)
GCD(a, b) == IF b = 0 THEN a ELSE GCD(b, a % b)

\* a / b for 0 <= a <= b, b > 0
Ratio(a, b) == [num |-> a \div GCD(a, b), den |-> b \div GCD(a, b)]

\* TradeStreamProcessor::new
TradeStreamProcessor_new ==
    [cvd |-> 0, buy_volume |-> 0, sell_volume |-> 0, trade_count |-> 0,
     last_price |-> 0, buy_volume_ratio |-> Ratio(1, 2)]

\* TradeStreamProcessor::process_trade
process_trade(p, price, quantity, is_buyer_maker) ==
    LET volume == price * quantity
        buy == IF is_buyer_maker THEN p.buy_volume ELSE p.buy_volume + volume
        sell == IF is_buyer_maker THEN p.sell_volume + volume ELSE p.sell_volume
        total == buy + sell
    IN [cvd |-> IF is_buyer_maker THEN p.cvd - volume ELSE p.cvd + volume,
        buy_volume |-> buy,
        sell_volume |-> sell,
        trade_count |-> p.trade_count + 1,
        last_price |-> price,
        buy_volume_ratio |-> IF total > 0 THEN Ratio(buy, total) ELSE p.buy_volume_ratio]

\* TradeStreamProcessor::buy_volume_ratio
buy_volume_ratio(p) == p.buy_volume_ratio

\* TradeStreamProcessor::reset_window
reset_window(p) == [p EXCEPT !.buy_volume = 0, !.sell_volume = 0]

(***************************************************************************)
(* Candle buffer (market_data/candle_buffer.rs).  A key without an entry   *)
(* and a key with an empty ring read the same through every method; both   *)
(* are the empty sequence.  Open times count intervals.                    *)
(***************************************************************************)
max_candles == 2
MaxRing == 3
CandleKeys == {"BTCUSDT@1m", "BTCUSDT@5m"}
CandleTimes == 0..2

\* a Candle as the kline stream parses it, reduced to the fields update reads
\* and the close price
Candle(open_time, close, is_closed) ==
    [open_time |-> open_time, close |-> close, is_closed |-> is_closed]

\* CandleBuffer::new
CandleBuffer_new == [k \in CandleKeys |-> <<>>]

\* ring.back() is an in-progress candle with the open time of `candle`
ReplacesBack(ring, candle) ==
    /\ ring # <<>>
    /\ ~ring[Len(ring)].is_closed
    /\ ring[Len(ring)].open_time = candle.open_time

\* while ring.len() > max_candles { ring.pop_front() }
RECURSIVE TrimFront(_)
TrimFront(ring) == IF Len(ring) > max_candles THEN TrimFront(Tail(ring)) ELSE ring

\* CandleBuffer::update, the ring of `key` afterwards
RingUpdate(ring, candle) ==
    LET kept == IF ReplacesBack(ring, candle) THEN SubSeq(ring, 1, Len(ring) - 1) ELSE ring
    IN IF candle.is_closed
       THEN TrimFront(Append(kept, candle))
       ELSE Append(kept, candle)

\* CandleBuffer::count
CandleCount(ring) == Len(ring)

(***************************************************************************)
(* SpecBarrier: one barrier state, any sequence of evaluate calls          *)
(***************************************************************************)
BPrices == {EntryPrice + k * PriceStep : k \in -PriceSpan..PriceSpan}
BTimes == 0..MaxTime
Sides == {"BUY", "SELL"}
BarrierCfgs == {explicit(100, 200, 400, BTimeLimit), explicit(10, 20, 30, BTimeLimit)}

\* state.evaluate(price, time) on the barrier under test
BEvaluate(price, time) ==
    LET r == BarrierEvaluate(bs, price, time) IN
    /\ bs' = r.state
    /\ bres' = r.result
    /\ bin' = [price |-> price, time |-> time]
    /\ UNCHANGED <<trailVars, exitVars, partVars, riskVars, taskVars, pmVars, sysVars>>

BarrierIdle ==
    /\ bs = BarrierState_new(explicit(100, 200, 400, BTimeLimit), EntryPrice, "BUY", 0)
    /\ bres = None
    /\ bin = [price |-> EntryPrice, time |-> 0]

(***************************************************************************)
(* SpecTrail: one MicroTrailState driven by evaluate and update_atr calls  *)
(* at non-decreasing times.                                                *)
(***************************************************************************)
TrailAtr == 40
TrailTp1Steps == 4
MaxTrailTime == 8
TrailTimeSteps == {2, 6}
TPrices == {EntryPrice + k * PriceStep : k \in {-2, 0, 1, 2, 3}}
TrailAtrs == {0, 2 * TrailAtr}
OrderFlows ==
    {[cvd |-> 0, cvd_at_entry |-> 0, orderbook_imbalance |-> 0, vpin |-> 50],
     [cvd |-> -1, cvd_at_entry |-> 0, orderbook_imbalance |-> 0, vpin |-> 50],
     [cvd |-> -1, cvd_at_entry |-> 0, orderbook_imbalance |-> -50, vpin |-> 80],
     [cvd |-> 1, cvd_at_entry |-> 0, orderbook_imbalance |-> 50, vpin |-> 80]}

\* trail.evaluate(current_price, current_time_secs, &of_ctx), dt seconds after
\* the previous call
TEvaluate(price, dt, order_flow) ==
    /\ mtNow + dt <= MaxTrailTime
    /\ LET r == MicroTrailEvaluate(mt, price, mtNow + dt, order_flow)
       IN /\ mt' = r.state
          /\ mtHit' = r.hit
    /\ mtNow' = mtNow + dt
    /\ UNCHANGED <<barrierVars, exitVars, partVars, riskVars, taskVars, pmVars, sysVars>>

\* trail.update_atr(new_atr)
TUpdateAtr(new_atr) ==
    /\ mt' = update_atr(mt, new_atr)
    /\ UNCHANGED <<mtHit, mtNow>>
    /\ UNCHANGED <<barrierVars, exitVars, partVars, riskVars, taskVars, pmVars, sysVars>>

TrailIdle ==
    /\ mt = MicroTrailState_new(TRUE, EntryPrice, EntryPrice + TrailTp1Steps * PriceStep, TrailAtr)
    /\ mtHit = FALSE
    /\ mtNow = 0

\* run_exit_monitor before its first tick, the strategy loop outside the
\* registration block, both map locks free
ExitIdle ==
    /\ mon = [pc |-> "sleep", ticks |-> 0, now_secs |-> 0, open_positions |-> <<>>,
              micro_trail_enabled |-> FALSE, i |-> 1]
    /\ reg = [pc |-> "idle", prop |-> NoneOpt, id |-> 0, now_secs |-> 0]
    /\ locks = [barriers |-> "free", trails |-> "free"]

\* no function or component under test
PartIdle ==
    /\ fnIn = NoneOpt
    /\ fnOut = NoneOpt
    /\ buffers = CandleBuffer_new
    /\ tsp = TradeStreamProcessor_new
    /\ account_mode = "Demo"
    /\ closedAtReset = 0

TrailInit ==
    /\ mt \in {MicroTrailState_new(l, EntryPrice,
                                   IF l THEN EntryPrice + TrailTp1Steps * PriceStep
                                        ELSE EntryPrice - TrailTp1Steps * PriceStep,
                                   TrailAtr) : l \in BOOLEAN}
    /\ mtHit = FALSE
    /\ mtNow = 0
    /\ BarrierIdle /\ ExitIdle /\ PartIdle /\ RiskIdle /\ TaskIdle /\ PMIdle /\ SysIdle

TrailNext ==
    \/ \E p \in TPrices, dt \in TrailTimeSteps, f \in OrderFlows : TEvaluate(p, dt, f)
    \/ \E a \in TrailAtrs : TUpdateAtr(a)

BarrierInit ==
    /\ bs \in {BarrierState_new(c, EntryPrice, s, o) : c \in BarrierCfgs, s \in Sides, o \in {0, 2}}
    /\ bres = None
    /\ bin = [price |-> EntryPrice, time |-> 0]
    /\ TrailIdle /\ ExitIdle /\ PartIdle /\ RiskIdle /\ TaskIdle /\ PMIdle /\ SysIdle

BarrierNext == \E p \in BPrices, t \in BTimes : BEvaluate(p, t)

vars == <<unitVars, riskVars, taskVars, pmVars, sysVars>>

SpecBarrier == BarrierInit /\ [][BarrierNext]_vars

SpecTrail == TrailInit /\ [][TrailNext]_vars

RiskInit == BarrierIdle /\ TrailIdle /\ ExitIdle /\ PartIdle /\ RiskIdle /\ TaskIdle /\ PMIdle /\ SysIdle

RiskNext ==
    \/ \E t \in Tasks, op \in RiskOps, pnl \in PnLs : RBegin(t, op, pnl)
    \/ \E t \in Tasks : RMaybeRead(t)
    \/ \E t \in Tasks : RMaybeWrite(t)
    \/ \E t \in Tasks : RBody(t)
    \/ RMidnight
    \/ RKill
    \/ RResetDaily

SpecRisk == RiskInit /\ [][RiskNext]_vars

PMInit == BarrierIdle /\ TrailIdle /\ ExitIdle /\ PartIdle /\ RiskIdle /\ TaskIdle /\ PMIdle /\ SysIdle

PMNext ==
    \/ \E s \in SymbolSet, sd \in Sides : PMOpen(s, sd, PMQuantity)
    \/ \E s \in SymbolSet, p \in PMPrices : PMUpdatePrice(s, p)
    \/ PMCheckExits
    \/ \E id \in Ids, r \in PMReasons, p \in PMPrices : PMClose(id, r, p)

SpecPM == PMInit /\ [][PMNext]_vars

Init ==
    /\ BarrierIdle /\ TrailIdle /\ ExitIdle /\ PartIdle /\ RiskIdle /\ TaskIdle /\ PMIdle
    /\ trading_mode = "Paused"
    /\ max_concurrent_positions \in 1..MaxConcurrent
    /\ strategy_params = StrategyParams_default
    /\ regime = None
    /\ now = 0
    /\ barriers = [id \in Ids |-> NoneOpt]
    /\ trails = [id \in Ids |-> NoneOpt]
    /\ StratIdle
    /\ toClose = <<>>
    /\ state_version = 1

Next ==
    \/ StratTick
    \/ \E inp \in MarketInputs : StratEvaluate(inp)
    \/ StratPushDecision
    \/ \E is_demo \in BOOLEAN, order_ok \in BOOLEAN : StratExecute(is_demo, order_ok)
    \/ StratRegBarrier
    \/ StratRegTrail
    \/ \E flag \in BOOLEAN, hits \in SUBSET Ids : ExitEvaluate(flag, hits)
    \/ ExitClose
    \/ \E s \in SymbolSet, p \in SysPrices : PriceUpdate(s, p)
    \/ \E r \in RegimeInputs : RegimeUpdate(r)
    \/ control_pause
    \/ control_resume
    \/ control_kill
    \/ Tick

Spec == Init /\ [][Next]_vars

(***************************************************************************)
(* SpecExit: run_exit_monitor statement by statement, next to the strategy *)
(* loop opening and registering positions and the price-update loop.  The  *)
(* clock moves between the ticks of the monitor; one tick takes less than  *)
(* a second of it.  Every PositionManager call takes and releases the      *)
(* manager's own locks within the call.                                    *)
(***************************************************************************)
MONITOR_INTERVAL_SECS == 5
MaxExitTicks == 2
ExitAtr == 20
ExitPrices == {EntryPrice + k * PriceStep : k \in {-1, 1}}
\* the signals of a run: long on the first symbol, short on the second
ExitSide(symbol) == IF symbol = Symbols[1] THEN "BUY" ELSE "SELL"
ExitClockSteps == {MONITOR_INTERVAL_SECS, regime_params("Ranging").time}

\* what build_order_flow_context reads for a symbol: quiet, or flowing down
MarketFlows ==
    {[cvd |-> 0, orderbook_imbalance |-> 0, vpin |-> 50],
     [cvd |-> -1, orderbook_imbalance |-> -50, vpin |-> 80]}

\* build_order_flow_context
build_order_flow_context(market, trail) ==
    [cvd                 |-> market.cvd,
     cvd_at_entry        |-> trail.cvd_at_entry,
     orderbook_imbalance |-> market.orderbook_imbalance,
     vpin                |-> market.vpin]

\* format!("MicroTrail_{} | {}", trail.phase, trail.adjustment_reason)
MicroTrailReason(trail) ==
    "MicroTrail_" \o TrailPhaseToString(trail.phase) \o " | " \o trail.adjustment_reason

\* run_exit_monitor, the loop body for one position of the snapshot: the
\* position's barrier and trail entries afterwards and what is pushed onto
\* to_close
ExitEvaluatePosition(pos, b, t, now_secs, micro_trail_enabled, market) ==
    LET ev == BarrierEvaluate(Unwrap(b), pos.current_price, now_secs)
        b1 == IF IsSome(b) THEN Some(ev.state) ELSE b
        tv == MicroTrailEvaluate(Unwrap(t), pos.current_price, now_secs,
                                 build_order_flow_context(market, Unwrap(t)))
        Entry(reason) == <<[id |-> pos.id, price |-> pos.current_price, reason |-> reason]>>
    IN IF pos.current_price <= 0
       THEN [barrier |-> b, trail |-> t, to_close |-> <<>>]
       ELSE IF IsSome(b) /\ ev.result # None
       THEN [barrier |-> b1, trail |-> t, to_close |-> Entry(ExitReasonToString(ev.result))]
       ELSE IF IsSome(t)
       THEN [barrier |-> b1, trail |-> Some(tv.state),
             to_close |-> IF tv.hit /\ micro_trail_enabled
                          THEN Entry(MicroTrailReason(tv.state)) ELSE <<>>]
       ELSE [barrier |-> b1, trail |-> t, to_close |-> <<>>]

\* Map guards that outlive the evaluation block.
DropMapGuardsLate(lk) == lk

\* the end of the evaluation block: trail_map and barrier_map are dropped
DropMapGuards(lk) == [barriers |-> "free", trails |-> "free"]

\* ticker.tick(), now_secs, get_open_positions, `continue` when there is none,
\* then the feature flag, read once per tick
MonTick(dt, micro_trail_enabled) ==
    /\ mon.pc = "sleep"
    /\ mon.ticks < MaxExitTicks
    /\ now' = now + dt
    /\ mon' = IF open = <<>>
              THEN [mon EXCEPT !.ticks = @ + 1, !.now_secs = now + dt]
              ELSE [pc |-> "lockB", ticks |-> mon.ticks + 1, now_secs |-> now + dt,
                    open_positions |-> open, micro_trail_enabled |-> micro_trail_enabled,
                    i |-> 1]
    /\ UNCHANGED <<reg, locks, barrierVars, trailVars, partVars>>
    /\ UNCHANGED <<cfgVars, regime, mapVars, stratVars, toClose, state_version>>
    /\ UNCHANGED <<riskVars, taskVars, pmVars>>

\* let mut barrier_map = barriers.write()
MonLockBarriers ==
    /\ mon.pc = "lockB"
    /\ locks.barriers = "free"
    /\ locks' = [locks EXCEPT !.barriers = "monitor"]
    /\ mon' = [mon EXCEPT !.pc = "lockT"]
    /\ UNCHANGED <<reg, barrierVars, trailVars, partVars, riskVars, taskVars, pmVars, sysVars>>

\* let mut trail_map = micro_trails.write()
MonLockTrails ==
    /\ mon.pc = "lockT"
    /\ locks.trails = "free"
    /\ locks' = [locks EXCEPT !.trails = "monitor"]
    /\ mon' = [mon EXCEPT !.pc = "eval"]
    /\ UNCHANGED <<reg, barrierVars, trailVars, partVars, riskVars, taskVars, pmVars, sysVars>>

\* for position in &open_positions: one iteration
MonEvaluate(market) ==
    /\ mon.pc = "eval"
    /\ LET pos == mon.open_positions[mon.i]
           r   == ExitEvaluatePosition(pos, barriers[pos.id], trails[pos.id], mon.now_secs,
                                       mon.micro_trail_enabled, market)
       IN /\ barriers' = [barriers EXCEPT ![pos.id] = r.barrier]
          /\ trails' = [trails EXCEPT ![pos.id] = r.trail]
          /\ toClose' = toClose \o r.to_close
    /\ mon' = [mon EXCEPT !.i = @ + 1,
                          !.pc = IF mon.i = Len(mon.open_positions) THEN "unlock" ELSE "eval"]
    /\ UNCHANGED <<reg, locks, barrierVars, trailVars, partVars>>
    /\ UNCHANGED <<cfgVars, regime, now, stratVars, state_version>>
    /\ UNCHANGED <<riskVars, taskVars, pmVars>>

\* the closing brace of the evaluation block
MonUnlock ==
    /\ mon.pc = "unlock"
    /\ locks' = DropMapGuards(locks)
    /\ mon' = [mon EXCEPT !.pc = "close"]
    /\ UNCHANGED <<reg, barrierVars, trailVars, partVars, riskVars, taskVars, pmVars, sysVars>>

\* for (position_id, exit_price, reason) in to_close: close_position and, when
\* it returns Some, record_trade_result; the tick ends when to_close is used up
MonClose ==
    /\ mon.pc = "close"
    /\ IF toClose = <<>>
       THEN /\ mon' = [mon EXCEPT !.pc = "sleep", !.open_positions = <<>>,
                                  !.micro_trail_enabled = FALSE, !.i = 1]
            /\ UNCHANGED <<open, closed, fills, risk, toClose>>
       ELSE LET e == Head(toClose)
                r == close_position(open, closed, e.id, e.reason, e.price)
            IN IF r.found
               THEN /\ open' = r.open
                    /\ closed' = r.closed
                    /\ fills' = [fills EXCEPT ![e.id] =
                                    Append(@, [price |-> e.price,
                                               qty   |-> open[IndexOfId(open, e.id)].quantity])]
                    /\ risk' = record_trade_result(risk, wallDate, r.pnl)
                    /\ mon' = [mon EXCEPT !.pc = "rmB"]
                    /\ UNCHANGED toClose
               ELSE /\ toClose' = Tail(toClose)
                    /\ UNCHANGED <<mon, open, closed, fills, risk>>
    /\ UNCHANGED <<nextId, origQty, wallDate>>
    /\ UNCHANGED <<reg, locks, barrierVars, trailVars, partVars, taskVars>>
    /\ UNCHANGED <<cfgVars, regime, now, mapVars, stratVars, state_version>>

\* barriers.write().remove(&position_id)
MonRemoveBarrier ==
    /\ mon.pc = "rmB"
    /\ locks.barriers = "free"
    /\ barriers' = [barriers EXCEPT ![Head(toClose).id] = NoneOpt]
    /\ mon' = [mon EXCEPT !.pc = "rmT"]
    /\ UNCHANGED <<reg, locks, barrierVars, trailVars, partVars>>
    /\ UNCHANGED <<cfgVars, regime, now, trails, stratVars, toClose, state_version>>
    /\ UNCHANGED <<riskVars, taskVars, pmVars>>

\* micro_trails.write().remove(&position_id); state.increment_version()
MonRemoveTrail ==
    /\ mon.pc = "rmT"
    /\ locks.trails = "free"
    /\ state_version < MaxVersion
    /\ trails' = [trails EXCEPT ![Head(toClose).id] = NoneOpt]
    /\ state_version' = increment_version(state_version)
    /\ toClose' = Tail(toClose)
    /\ mon' = [mon EXCEPT !.pc = "close"]
    /\ UNCHANGED <<reg, locks, barrierVars, trailVars, partVars>>
    /\ UNCHANGED <<cfgVars, regime, now, barriers, stratVars>>
    /\ UNCHANGED <<riskVars, taskVars, pmVars>>

\* strategy loop: evaluate_symbol allows `side` on `symbol` and
\* execute_proposal opens the position (Simulated / Placed)
RegOpen(symbol, side) ==
    /\ reg.pc = "idle"
    /\ nextId <= MaxPositions
    /\ ~Gate4Blocks(open, max_concurrent_positions)
    /\ ~Gate5Blocks(open, symbol)
    /\ can_trade(risk, wallDate).allowed
    /\ LET prop == BuildProposal(strategy_params, symbol, side, EntryPrice, ExitAtr, 1000,
                                 regime_label(regime), IF side = "BUY" THEN 20 ELSE -20)
       IN /\ open' = Append(open, NewPosition(nextId, prop.symbol, prop.side,
                                    prop.entry_price, prop.quantity, prop.stop_loss,
                                    prop.take_profit_1, prop.take_profit_2))
          /\ origQty' = [origQty EXCEPT ![nextId] = prop.quantity]
          /\ reg' = [reg EXCEPT !.pc = "find", !.prop = Some(prop)]
    /\ nextId' = nextId + 1
    /\ risk' = can_trade(risk, wallDate).state
    /\ UNCHANGED <<closed, fills, wallDate>>
    /\ UNCHANGED <<mon, locks, barrierVars, trailVars, partVars, taskVars, sysVars>>

\* get_open_positions, open.iter().rev().find(..), now_secs
RegFind ==
    /\ reg.pc = "find"
    /\ LET idx == LastIndexOfSymbol(open, Unwrap(reg.prop).symbol)
       IN reg' = IF idx = 0
                 THEN [pc |-> "idle", prop |-> NoneOpt, id |-> 0, now_secs |-> 0]
                 ELSE [reg EXCEPT !.pc = "lockB", !.id = open[idx].id, !.now_secs = now]
    /\ UNCHANGED <<mon, locks, barrierVars, trailVars, partVars, riskVars, taskVars, pmVars, sysVars>>

\* strat_barriers.write()
RegLockBarriers ==
    /\ reg.pc = "lockB"
    /\ locks.barriers = "free"
    /\ locks' = [locks EXCEPT !.barriers = "strategy"]
    /\ reg' = [reg EXCEPT !.pc = "insB"]
    /\ UNCHANGED <<mon, barrierVars, trailVars, partVars, riskVars, taskVars, pmVars, sysVars>>

\* .insert(pos.id.clone(), barrier); the guard is dropped with the statement
RegInsertBarrier ==
    /\ reg.pc = "insB"
    /\ barriers' = [barriers EXCEPT ![reg.id] = Some(NewBarrierFor(Unwrap(reg.prop),
                                                                   reg.now_secs))]
    /\ locks' = [locks EXCEPT !.barriers = "free"]
    /\ reg' = [reg EXCEPT !.pc = "lockT"]
    /\ UNCHANGED <<mon, barrierVars, trailVars, partVars>>
    /\ UNCHANGED <<cfgVars, regime, now, trails, stratVars, toClose, state_version>>
    /\ UNCHANGED <<riskVars, taskVars, pmVars>>

\* strat_trails.write()
RegLockTrails ==
    /\ reg.pc = "lockT"
    /\ locks.trails = "free"
    /\ locks' = [locks EXCEPT !.trails = "strategy"]
    /\ reg' = [reg EXCEPT !.pc = "insT"]
    /\ UNCHANGED <<mon, barrierVars, trailVars, partVars, riskVars, taskVars, pmVars, sysVars>>

\* .insert(pos.id.clone(), micro); the guard is dropped with the statement
RegInsertTrail ==
    /\ reg.pc = "insT"
    /\ trails' = [trails EXCEPT ![reg.id] = Some(NewTrailFor(Unwrap(reg.prop), 0))]
    /\ locks' = [locks EXCEPT !.trails = "free"]
    /\ reg' = [pc |-> "idle", prop |-> NoneOpt, id |-> 0, now_secs |-> 0]
    /\ UNCHANGED <<mon, barrierVars, trailVars, partVars>>
    /\ UNCHANGED <<cfgVars, regime, now, barriers, stratVars, toClose, state_version>>
    /\ UNCHANGED <<riskVars, taskVars, pmVars>>

\* main() with trading resumed and one position allowed at a time
ExitInit ==
    /\ BarrierIdle /\ TrailIdle /\ ExitIdle /\ PartIdle /\ RiskIdle /\ TaskIdle /\ PMIdle
    /\ trading_mode = "Live"
    /\ max_concurrent_positions = 1
    /\ strategy_params = StrategyParams_default
    /\ regime = None
    /\ now = 0
    /\ barriers = [id \in Ids |-> NoneOpt]
    /\ trails = [id \in Ids |-> NoneOpt]
    /\ StratIdle
    /\ toClose = <<>>
    /\ state_version = 2

ExitNext ==
    \/ \E dt \in ExitClockSteps, micro_trail_enabled \in BOOLEAN : MonTick(dt, micro_trail_enabled)
    \/ MonLockBarriers
    \/ MonLockTrails
    \/ \E market \in MarketFlows : MonEvaluate(market)
    \/ MonUnlock
    \/ MonClose
    \/ MonRemoveBarrier
    \/ MonRemoveTrail
    \/ \E symbol \in SymbolSet : RegOpen(symbol, ExitSide(symbol))
    \/ RegFind
    \/ RegLockBarriers
    \/ RegInsertBarrier
    \/ RegLockTrails
    \/ RegInsertTrail
    \/ \E symbol \in SymbolSet, price \in ExitPrices : PriceUpdate(symbol, price)

SpecExit == ExitInit /\ [][ExitNext]_vars

(***************************************************************************)
(* SpecCandle: the kline streams feed update with whatever they parse.     *)
(***************************************************************************)
\* buffer.update(key, candle)
CandleUpdate(key, candle) ==
    /\ Len(RingUpdate(buffers[key], candle)) <= MaxRing
    /\ buffers' = [buffers EXCEPT ![key] = RingUpdate(@, candle)]
    /\ UNCHANGED <<fnIn, fnOut, tsp, account_mode, closedAtReset>>
    /\ UNCHANGED <<barrierVars, trailVars, exitVars, riskVars, taskVars, pmVars, sysVars>>

CandleInit ==
    BarrierIdle /\ TrailIdle /\ ExitIdle /\ PartIdle /\ RiskIdle /\ TaskIdle /\ PMIdle /\ SysIdle

CandleNext ==
    \E key \in CandleKeys, t \in CandleTimes, is_closed \in BOOLEAN :
        CandleUpdate(key, Candle(t, 100 + t, is_closed))

SpecCandle == CandleInit /\ [][CandleNext]_vars

(***************************************************************************)
(* SpecTrades: the trade stream of one symbol and the window reset.        *)
(***************************************************************************)
\* run_trade_stream: processor.process_trade(price, quantity, is_buyer_maker)
TradeProcess(price, quantity, is_buyer_maker) ==
    /\ tsp.trade_count < MaxTrades
    /\ tsp' = process_trade(tsp, price, quantity, is_buyer_maker)
    /\ UNCHANGED <<fnIn, fnOut, buffers, account_mode, closedAtReset>>
    /\ UNCHANGED <<barrierVars, trailVars, exitVars, riskVars, taskVars, pmVars, sysVars>>

\* processor.reset_window()
TradeResetWindow ==
    /\ tsp' = reset_window(tsp)
    /\ UNCHANGED <<fnIn, fnOut, buffers, account_mode, closedAtReset>>
    /\ UNCHANGED <<barrierVars, trailVars, exitVars, riskVars, taskVars, pmVars, sysVars>>

TradesInit ==
    BarrierIdle /\ TrailIdle /\ ExitIdle /\ PartIdle /\ RiskIdle /\ TaskIdle /\ PMIdle /\ SysIdle

TradesNext ==
    \/ \E price \in TradePrices, quantity \in TradeQuantities, is_buyer_maker \in BOOLEAN :
         TradeProcess(price, quantity, is_buyer_maker)
    \/ TradeResetWindow

SpecTrades == TradesInit /\ [][TradesNext]_vars

(***************************************************************************)
(* SpecFilter: the smart filters on the regime label evaluate_symbol hands *)
(* them.                                                                   *)
(***************************************************************************)
FilterScores == {-25, -19, -16, -11, 9, 11, 16, 19, 21}

FilterInputs ==
    [regime : MarketRegimes \cup {None}, score : FilterScores,
     htf_pass : BOOLEAN, enable_score_momentum : BOOLEAN, enable_adaptive_threshold : BOOLEAN]

\* evaluate_symbol steps 3 and 7: regime_label, SmartFilterEngine::evaluate
FilterEvaluate(in) ==
    /\ fnIn' = Some(in)
    /\ fnOut' = Some(SmartFilterEvaluate(in.htf_pass, in.enable_score_momentum,
                                         in.enable_adaptive_threshold,
                                         regime_label(in.regime), in.score))
    /\ UNCHANGED <<buffers, tsp, account_mode, closedAtReset>>
    /\ UNCHANGED <<barrierVars, trailVars, exitVars, riskVars, taskVars, pmVars, sysVars>>

FilterInit ==
    BarrierIdle /\ TrailIdle /\ ExitIdle /\ PartIdle /\ RiskIdle /\ TaskIdle /\ PMIdle /\ SysIdle

FilterNext == \E in \in FilterInputs : FilterEvaluate(in)

SpecFilter == FilterInit /\ [][FilterNext]_vars

(***************************************************************************)
(* SpecRiskMode: one caller at a time recording trade results of several   *)
(* sizes, with kill, the admin reset and midnight.                         *)
(***************************************************************************)
ModePnls == {-4 * WinPnl, -LossPnl, WinPnl, 2 * WinPnl}

\* record_trade_result(pnl)
MaxModeRecords == 4
ModeRecord(pnl) ==
    /\ maybe_reset_daily(risk, wallDate).daily_trades_count < MaxModeRecords
    /\ risk' = record_trade_result(risk, wallDate, pnl)
    /\ UNCHANGED <<wallDate, taskVars>>
    /\ UNCHANGED <<unitVars, pmVars, sysVars>>

RiskModeInit ==
    BarrierIdle /\ TrailIdle /\ ExitIdle /\ PartIdle /\ RiskIdle /\ TaskIdle /\ PMIdle /\ SysIdle

RiskModeNext ==
    \/ \E pnl \in ModePnls : ModeRecord(pnl)
    \/ RMidnight
    \/ RKill
    \/ RResetDaily

SpecRiskMode == RiskModeInit /\ [][RiskModeNext]_vars

(***************************************************************************)
(* SpecBoot: main() from whatever configuration was loaded, then the       *)
(* strategy loop and the control API.  The exit monitor and the price and  *)
(* regime loops are left out: they never write the modes or open           *)
(* positions.                                                              *)
(***************************************************************************)
\* trading_mode / account_mode as runtime_config.json (or the default) holds them
LoadedModes == [trading_mode : {"Live", "Paused", "Killed"}, account_mode : {"Demo", "Live"}]

\* A startup that keeps the loaded modes.
MainStartupKeeping(config) == config

\* main: config.trading_mode = Paused; config.account_mode = Demo
MainStartup(config) == [config EXCEPT !.trading_mode = "Paused", !.account_mode = "Demo"]

\* POST control/account-mode
control_account_mode(mode) ==
    /\ state_version < MaxVersion
    /\ state_version' = increment_version(state_version)
    /\ account_mode' = mode
    /\ UNCHANGED <<fnIn, fnOut, buffers, tsp, closedAtReset>>
    /\ UNCHANGED <<barrierVars, trailVars, exitVars>>
    /\ UNCHANGED <<cfgVars, regime, now, mapVars, stratVars, toClose>>
    /\ UNCHANGED <<riskVars, taskVars, pmVars>>

\* the loaded modes are kept in fnIn
BootInit ==
    /\ BarrierIdle /\ TrailIdle /\ ExitIdle /\ RiskIdle /\ TaskIdle /\ PMIdle
    /\ \E loaded \in LoadedModes :
         /\ fnIn = Some(loaded)
         /\ trading_mode = MainStartup(loaded).trading_mode
         /\ account_mode = MainStartup(loaded).account_mode
    /\ fnOut = NoneOpt
    /\ buffers = CandleBuffer_new
    /\ tsp = TradeStreamProcessor_new
    /\ closedAtReset = 0
    /\ max_concurrent_positions \in 1..MaxConcurrent
    /\ strategy_params = StrategyParams_default
    /\ regime = None
    /\ now = 0
    /\ barriers = [id \in Ids |-> NoneOpt]
    /\ trails = [id \in Ids |-> NoneOpt]
    /\ StratIdle
    /\ toClose = <<>>
    /\ state_version = 1

\* is_demo is the account mode as the tick read it before the symbol loop
BootNext ==
    \/ StratTick
    \/ \E inp \in MarketInputs : StratEvaluate(inp)
    \/ StratPushDecision
    \/ \E is_demo \in BOOLEAN, order_ok \in BOOLEAN : StratExecute(is_demo, order_ok)
    \/ StratRegBarrier
    \/ StratRegTrail
    \/ control_pause
    \/ control_resume
    \/ control_kill
    \/ \E mode \in {"Demo", "Live"} : control_account_mode(mode)

SpecBoot == BootInit /\ [][BootNext]_vars

\* Paused on Demo, no position ever opened, no proposal pending
BootQuiet ==
    /\ trading_mode = "Paused"
    /\ account_mode = "Demo"
    /\ open = <<>> /\ closed = <<>> /\ nextId = 1
    /\ proposal = NoneOpt

\* a request served by one of the control handlers
ControlRequest ==
    \/ control_pause \/ control_resume \/ control_kill
    \/ \E mode \in {"Demo", "Live"} : control_account_mode(mode)

(***************************************************************************)
(* SpecRegime: the regime classification on the four indicator values.     *)
(* ADX in units, Bollinger band width in tenths of a percent, Hurst and    *)
(* entropy in hundredths.  The confidence that classify returns next to    *)
(* the regime is left out.                                                 *)
(***************************************************************************)
\* classify with the trending rule tried first.
classify_trending_first(adx, bbw, hurst, entropy) ==
    IF adx > 25 /\ hurst > 55 THEN "Trending"
    ELSE IF entropy >= 95 THEN "Dead"
    ELSE IF bbw > 50 THEN "Volatile"
    ELSE IF bbw < 15 /\ adx < 20 THEN "Squeeze"
    ELSE "Ranging"

\* regime::detector::classify, the regime of the returned pair
classify(adx, bbw, hurst, entropy) ==
    IF entropy >= 95 THEN "Dead"
    ELSE IF bbw > 50 THEN "Volatile"
    ELSE IF bbw < 15 /\ adx < 20 THEN "Squeeze"
    ELSE IF adx > 25 /\ hurst > 55 THEN "Trending"
    ELSE IF adx < 20 /\ hurst < 45 THEN "Ranging"
    ELSE "Ranging"

IndicatorInputs ==
    [adx : {10, 20, 22, 25, 26, 40}, bbw : {10, 15, 30, 50, 51},
     hurst : {40, 45, 50, 55, 56, 70}, entropy : {50, 94, 95, 97}]

\* RegimeDetector::update: classify(adx, bbw, hurst, entropy)
RegimeClassify(in) ==
    /\ fnIn' = Some(in)
    /\ fnOut' = Some(classify(in.adx, in.bbw, in.hurst, in.entropy))
    /\ UNCHANGED <<buffers, tsp, account_mode, closedAtReset>>
    /\ UNCHANGED <<barrierVars, trailVars, exitVars, riskVars, taskVars, pmVars, sysVars>>

RegimeInit ==
    BarrierIdle /\ TrailIdle /\ ExitIdle /\ PartIdle /\ RiskIdle /\ TaskIdle /\ PMIdle /\ SysIdle

RegimeNext == \E in \in IndicatorInputs : RegimeClassify(in)

SpecRegime == RegimeInit /\ [][RegimeNext]_vars

(***************************************************************************)
(* SpecDaily: positions opened, priced and closed by the exit monitor's    *)
(* close loop while the UTC date advances; the strategy loop's can_trade   *)
(* is the other caller of maybe_reset_daily.  reset_daily and kill have no *)
(* caller in the program.                                                  *)
(***************************************************************************)
\* the journal length noted when a call of maybe_reset_daily resets
MarkReset(s, today, journal_len) == IF s.current_date # today THEN journal_len ELSE closedAtReset

\* exit monitor close loop for an open position: close_position, then
\* record_trade_result with the PnL it returned
DailyClose(id, reason, close_price) ==
    LET r == close_position(open, closed, id, reason, close_price) IN
    /\ r.found
    /\ open' = r.open
    /\ closed' = r.closed
    /\ fills' = [fills EXCEPT ![id] = Append(@, [price |-> close_price,
                                                 qty |-> open[IndexOfId(open, id)].quantity])]
    /\ risk' = record_trade_result(risk, wallDate, r.pnl)
    /\ closedAtReset' = MarkReset(risk, wallDate, Len(closed))
    /\ UNCHANGED <<nextId, origQty, wallDate>>
    /\ UNCHANGED <<fnIn, fnOut, buffers, tsp, account_mode>>
    /\ UNCHANGED <<barrierVars, trailVars, exitVars, taskVars, sysVars>>

\* evaluate_symbol gate 7 / execute_proposal: risk_engine.can_trade()
DailyCanTrade ==
    /\ risk' = can_trade(risk, wallDate).state
    /\ closedAtReset' = MarkReset(risk, wallDate, Len(closed))
    /\ UNCHANGED <<wallDate, pmVars>>
    /\ UNCHANGED <<fnIn, fnOut, buffers, tsp, account_mode>>
    /\ UNCHANGED <<barrierVars, trailVars, exitVars, taskVars, sysVars>>

DailyInit ==
    BarrierIdle /\ TrailIdle /\ ExitIdle /\ PartIdle /\ RiskIdle /\ TaskIdle /\ PMIdle /\ SysIdle

DailyNext ==
    \/ \E s \in SymbolSet, sd \in Sides : PMOpen(s, sd, PMQuantity)
    \/ \E s \in SymbolSet, p \in PMPrices : PMUpdatePrice(s, p)
    \/ \E id \in Ids, r \in PMReasons, p \in PMPrices : DailyClose(id, r, p)
    \/ DailyCanTrade
    \/ RMidnight

SpecDaily == DailyInit /\ [][DailyNext]_vars

(***************************************************************************)
(* SpecOpens: the strategy loop opening positions on the demo account and  *)
(* the exit monitor's close loop recording their results, while the UTC    *)
(* date advances.  An iteration of the strategy loop (evaluate_symbol,     *)
(* then execute_proposal) is taken in one piece; the fill history of the   *)
(* position manager is not kept here.                                      *)
(***************************************************************************)
MaxDayOpens == 4
OpenIds == 1..MaxDayOpens

\* strategy loop, one symbol: evaluate_symbol, then execute_proposal (demo)
DayTrade(symbol, inp) ==
    /\ nextId <= MaxDayOpens
    /\ LET r  == evaluate_symbol(symbol, inp, trading_mode, regime, open,
                                 max_concurrent_positions, strategy_params, risk,
                                 wallDate)
           ct == can_trade(r.risk, wallDate)
       IN IF IsSome(r.proposal)
          THEN /\ risk' = ct.state
               /\ IF ct.allowed
                  THEN LET prop == Unwrap(r.proposal)
                       IN /\ open' = Append(open, NewPosition(nextId, prop.symbol, prop.side,
                                               prop.entry_price, prop.quantity, prop.stop_loss,
                                               prop.take_profit_1, prop.take_profit_2))
                          /\ nextId' = nextId + 1
                  ELSE UNCHANGED <<open, nextId>>
          ELSE /\ risk' = r.risk
               /\ UNCHANGED <<open, nextId>>
    /\ UNCHANGED <<closed, origQty, fills, wallDate>>
    /\ UNCHANGED <<unitVars, taskVars, sysVars>>

\* exit monitor close loop: close_position, then record_trade_result
DayClose(id, reason, close_price) ==
    LET r == close_position(open, closed, id, reason, close_price) IN
    /\ r.found
    /\ open' = r.open
    /\ closed' = r.closed
    /\ risk' = record_trade_result(risk, wallDate, r.pnl)
    /\ UNCHANGED <<nextId, origQty, fills, wallDate>>
    /\ UNCHANGED <<unitVars, taskVars, sysVars>>

\* a market that passes every check, and the same market with a flat score
DayInputs == {GoodMarket, [GoodMarket EXCEPT !.score = 0]}
\* a close at the stop and a close at the second target
DayCloses ==
    {[reason |-> "StopLoss", price |-> EntryPrice - 3 * PriceStep],
     [reason |-> "TakeProfit2", price |-> EntryPrice + 4 * PriceStep]}

\* RuntimeConfig::load followed by main(): the loaded maximum of concurrent
\* positions, mode Paused
OpensInit ==
    /\ BarrierIdle /\ TrailIdle /\ ExitIdle /\ PartIdle /\ RiskIdle /\ TaskIdle /\ PMIdle
    /\ strategy_params = StrategyParams_default
    /\ trading_mode = "Paused"
    /\ max_concurrent_positions \in 1..MaxConcurrent
    /\ state_version = 1
    /\ regime = None
    /\ now = 0
    /\ barriers = [id \in Ids |-> NoneOpt]
    /\ trails = [id \in Ids |-> NoneOpt]
    /\ StratIdle
    /\ toClose = <<>>

OpensNext ==
    \/ control_resume
    \/ \E s \in SymbolSet, inp \in DayInputs : DayTrade(s, inp)
    \/ \E id \in OpenIds, c \in DayCloses : DayClose(id, c.reason, c.price)
    \/ RMidnight

SpecOpens == OpensInit /\ [][OpensNext]_vars

(***************************************************************************)
(* SpecGate: InsuranceGate::check_all on the states it can be called in.   *)
(***************************************************************************)
\* a position as evaluate_symbol and execute_proposal open it on `symbol`
GatePosition(id, symbol) ==
    LET prop == BuildProposal(StrategyParams_default, symbol, "BUY", EntryPrice, 20, 1000,
                              "Ranging", 20)
    IN NewPosition(id, prop.symbol, prop.side, prop.entry_price, prop.quantity,
                   prop.stop_loss, prop.take_profit_1, prop.take_profit_2)

\* what check_all reads: the trading mode, the regime, the open positions
\* under the configured maximum, the spread and the risk engine
GateInputs ==
    [mode    : {"Live", "Paused", "Killed"},
     regime  : {None, "Trending", "Dead"},
     book    : {[open |-> <<>>, max |-> 1],
                [open |-> <<GatePosition(1, Symbols[1])>>, max |-> 1],
                [open |-> <<GatePosition(1, Symbols[1])>>, max |-> 2],
                [open |-> <<GatePosition(1, Symbols[2]), GatePosition(2, Symbols[1])>>,
                 max |-> 2]},
     symbol  : SymbolSet,
     spread  : {NoneOpt, Some(MAX_SPREAD_BPS), Some(MAX_SPREAD_BPS + 1)},
     risk    : {RiskEngine_new(0), KillBody(RiskEngine_new(0)),
                RecordBody(RecordBody(RiskEngine_new(0), -LossPnl), -LossPnl)}]

\* InsuranceGate::check_all(state, symbol, side) in the state `in`
GateCheckAll(in) ==
    /\ fnIn' = Some(in)
    /\ fnOut' = Some(check_all(in.mode, in.regime, in.book.open, in.book.max, in.symbol,
                               in.spread, in.risk, in.risk.current_date).reason)
    /\ UNCHANGED <<buffers, tsp, account_mode, closedAtReset>>
    /\ UNCHANGED <<barrierVars, trailVars, exitVars, riskVars, taskVars, pmVars, sysVars>>

GateInit ==
    BarrierIdle /\ TrailIdle /\ ExitIdle /\ PartIdle /\ RiskIdle /\ TaskIdle /\ PMIdle /\ SysIdle

GateNext == \E in \in GateInputs : GateCheckAll(in)

SpecGate == GateInit /\ [][GateNext]_vars

(***************************************************************************)
(* SpecProposal: evaluate_symbol under the strategy parameters a            *)
(* runtime_config.json can carry.  RuntimeConfig::load deserialises the     *)
(* file and returns it as parsed; main() only forces the trading mode.      *)
(***************************************************************************)
\* strategy_params a JSON file can hold: the defaults, smaller minimum
\* percentages, and smaller ATR multipliers with the default minimums
LoadedStrategyParams ==
    {StrategyParams_default,
     [StrategyParams_default EXCEPT !.min_sl_pct = 10, !.min_tp1_pct = 20,
                                    !.min_tp2_pct = 30],
     [StrategyParams_default EXCEPT !.min_sl_pct = 0, !.min_tp1_pct = 60,
                                    !.min_tp2_pct = 100],
     [StrategyParams_default EXCEPT !.sl_atr_multiplier = 5,
                                    !.tp1_atr_multiplier = 10,
                                    !.tp2_atr_multiplier = 20]}

\* RuntimeConfig::load followed by main(): the parsed parameters, mode Paused
RuntimeConfig_load(params) ==
    /\ strategy_params = params
    /\ trading_mode = "Paused"
    /\ max_concurrent_positions = 1

ProposalPrices == {EntryPrice \div 2, EntryPrice, 2 * EntryPrice}
ProposalAtrs == {10, 20, 60, 200}
ProposalInputs ==
    {[GoodMarket EXCEPT !.price = pr, !.atr = Some(a), !.score = sc] :
        pr \in ProposalPrices, a \in ProposalAtrs, sc \in {-20, 20}}

\* One evaluate_symbol call of the strategy loop on its own: nothing is
\* executed, so no position opens and every call sees the same book.
ProposalEvaluate(symbol, inp) ==
    /\ LET r == evaluate_symbol(symbol, inp, trading_mode, regime, open,
                                max_concurrent_positions, strategy_params, risk,
                                wallDate)
       IN /\ envelope' = Some(r.envelope)
          /\ proposal' = r.proposal
          /\ risk' = r.risk
    /\ UNCHANGED <<stratPc, stratIdx, evalRegime, tickEnvs, regId>>
    /\ UNCHANGED <<cfgVars, regime, now, mapVars, toClose, state_version>>
    /\ UNCHANGED <<unitVars, wallDate, taskVars, pmVars>>

ProposalInit ==
    /\ BarrierIdle /\ TrailIdle /\ ExitIdle /\ PartIdle /\ RiskIdle /\ TaskIdle /\ PMIdle
    /\ \E params \in LoadedStrategyParams : RuntimeConfig_load(params)
    /\ state_version = 1
    /\ regime = None
    /\ now = 0
    /\ barriers = [id \in Ids |-> NoneOpt]
    /\ trails = [id \in Ids |-> NoneOpt]
    /\ StratIdle
    /\ toClose = <<>>

ProposalNext ==
    \/ control_resume
    \/ control_pause
    \/ \E symbol \in SymbolSet, inp \in ProposalInputs : ProposalEvaluate(symbol, inp)

SpecProposal == ProposalInit /\ [][ProposalNext]_vars

(***************************************************************************)
(* SpecRegister: the strategy loop from evaluate_symbol to the registration *)
(* of the barrier and the trail of the position it opened, over every       *)
(* market regime and a range of ATR readings and prices.                    *)
(***************************************************************************)
RegisterInit ==
    /\ BarrierIdle /\ TrailIdle /\ ExitIdle /\ PartIdle /\ RiskIdle /\ TaskIdle /\ PMIdle
    /\ RuntimeConfig_load(StrategyParams_default)
    /\ state_version = 1
    /\ regime = None
    /\ now = 0
    /\ barriers = [id \in Ids |-> NoneOpt]
    /\ trails = [id \in Ids |-> NoneOpt]
    /\ StratIdle
    /\ toClose = <<>>

RegisterNext ==
    \/ control_resume
    \/ \E r \in MarketRegimes : RegimeUpdate(r)
    \/ StratTick
    \/ \E inp \in ProposalInputs : StratEvaluate(inp)
    \/ StratPushDecision
    \/ \E is_demo \in BOOLEAN, order_ok \in BOOLEAN : StratExecute(is_demo, order_ok)
    \/ StratRegBarrier
    \/ StratRegTrail

SpecRegister == RegisterInit /\ [][RegisterNext]_vars

\* C1: across every evaluate call current_sl_price never widens: it does not
\* decrease for a long (BUY) position and does not increase for a short (SELL).
C1_SlNeverWidens ==
    [][IF bs.side = "BUY" THEN bs'.current_sl_price >= bs.current_sl_price
                          ELSE bs'.current_sl_price <= bs.current_sl_price]_vars

\* C1 witness: progressive tightening has moved the SL off its initial level
\* with no lock active, and a later call evaluates at an earlier time.
C1_Witness ==
    /\ ~bs.profit_lock_active /\ ~bs.breakeven_lock_active
    /\ bs.current_sl_price # BarrierState_new(bs.config, bs.entry_price, bs.side, 0).current_sl_price
    /\ 2 * Elapsed(bs, bin.time) < bs.config.time_limit_secs


\* C2: the automatic daily reset runs exactly once per UTC date boundary,
\* whatever tasks call can_trade, record_trade_result and get_state around it:
\* maybe_reset_daily never resets more often than midnights have passed.
C2_ResetExactlyOnce == autoResets <= wallDate

\* C4: a can_trade() that starts after kill() has been called returns false,
\* as long as no admin reset_daily() has been made since.
C4_KillLatch ==
    \A t \in Tasks : (tkill[t] /\ tres[t] # None /\ ~adminReset) => tres[t] = "blocked"

\* C4 witness: after kill() and an automatic date rollover, with every circuit
\* breaker clear, a can_trade() still returned false.
C4_Witness ==
    \E t \in Tasks :
        /\ tkill[t] /\ tres[t] = "blocked" /\ ~adminReset
        /\ risk.current_date > 0 /\ autoResets > 0
        /\ CanTradeBody([risk EXCEPT !.killed = FALSE]).allowed

\* C10: every closed position's realized_pnl is the sum, over the quantities
\* taken off it (the TP1 partial close and the final close), of
\* direction * (price - entry) * quantity, the last of them at the recorded
\* close price, and those quantities add up to the quantity it was opened with.
C10_RealizedPnlIsSumOfFills ==
    \A i \in DOMAIN closed :
        LET pos == closed[i]
            f   == fills[pos.id]
            SumPnl[k \in 0..Len(f)] ==
                IF k = 0 THEN 0
                ELSE SumPnl[k - 1] + Direction(pos.side) * (f[k].price - pos.entry_price) * f[k].qty
            SumQty[k \in 0..Len(f)] == IF k = 0 THEN 0 ELSE SumQty[k - 1] + f[k].qty
        IN /\ Len(f) >= 1
           /\ f[Len(f)].price = pos.current_price
           /\ pos.realized_pnl = SumPnl[Len(f)]
           /\ SumQty[Len(f)] = origQty[pos.id]

\* C10 witness: a position closed after a TP1 partial close at another price,
\* with both parts contributing a non-zero PnL.
C10_Witness ==
    \E i \in DOMAIN closed :
        /\ Len(fills[closed[i].id]) = 2
        /\ fills[closed[i].id][1].price # fills[closed[i].id][2].price
        /\ fills[closed[i].id][2].price # closed[i].entry_price
        /\ fills[closed[i].id][1].qty > 0 /\ fills[closed[i].id][2].qty > 0

\* C3: in every strategy tick each configured symbol gets exactly one decision
\* envelope (none yet for the symbols still to come), and the envelope that
\* evaluate_symbol returns says ALLOW exactly when a proposal comes with it and
\* BLOCK exactly when none does.
C3_OneEnvelopePerSymbol ==
    /\ \A i \in DOMAIN Symbols :
          tickEnvs[Symbols[i]] =
              IF stratPc = "idle" THEN (IF tickEnvs[Symbols[1]] = 0 THEN 0 ELSE 1)
              ELSE IF i < stratIdx THEN 1
              ELSE IF i > stratIdx THEN 0
              ELSE IF stratPc \in {"eval", "push"} THEN 0 ELSE 1
    /\ stratPc = "push" <=> IsSome(envelope)
    /\ IsSome(envelope) =>
          /\ Unwrap(envelope).final_decision = "ALLOW" <=> IsSome(proposal)
          /\ Unwrap(envelope).final_decision = "BLOCK" <=> ~IsSome(proposal)

\* C3 witness: a tick has ended with one envelope for every symbol, and the
\* evaluation before was blocked with no proposal while a position is open
\* from an allowed one.
C3_Witness ==
    /\ stratPc = "push"
    /\ stratIdx = Len(Symbols)
    /\ Unwrap(envelope).final_decision = "BLOCK" /\ ~IsSome(proposal)
    /\ \E i \in DOMAIN open : open[i].symbol = Symbols[1]
    /\ tickEnvs[Symbols[1]] = 1

\* C5: once trading_mode is Killed it stays Killed: no later step returns it
\* to Paused or Live.
C5_KillIsIrreversible == [][trading_mode = "Killed" => trading_mode' = "Killed"]_vars

\* C6: whenever evaluate_symbol runs while the current regime is Dead, it
\* returns a BLOCK envelope and no proposal.
C6_DeadRegimeBlocks ==
    (stratPc = "push" /\ evalRegime = "Dead") =>
        (Unwrap(envelope).final_decision = "BLOCK" /\ ~IsSome(proposal))

\* C7: the number of open positions never exceeds max_concurrent_positions,
\* and a step opens a position only when the count is strictly below it.
C7_MaxConcurrentPositions ==
    /\ [](Len(open) <= max_concurrent_positions)
    /\ [][Len(open') > Len(open) => Len(open) < max_concurrent_positions]_vars

\* C7 witness: with as many positions open as max_concurrent_positions allows,
\* an evaluation for a symbol without a position is blocked by gate 4.
C7_Witness ==
    /\ stratPc = "push"
    /\ Len(open) = max_concurrent_positions
    /\ ~Gate5Blocks(open, Symbols[stratIdx])
    /\ Unwrap(envelope).blocking_layer = "Insurance"
    /\ Unwrap(envelope).reason = "Max concurrent positions reached"

\* C8: at every moment each symbol has at most one open position (status
\* Open or PartialTP1).
C8_OnePositionPerSymbol ==
    \A i, j \in DOMAIN open :
        (open[i].symbol = open[j].symbol /\ open[i].status \in {"Open", "PartialTP1"}
            /\ open[j].status \in {"Open", "PartialTP1"}) => i = j

\* C8 witness: with room left under max_concurrent_positions, an evaluation
\* for a symbol that has an open position is blocked by gate 5.
C8_Witness ==
    /\ stratPc = "push"
    /\ Len(open) < max_concurrent_positions
    /\ Gate5Blocks(open, Symbols[stratIdx])
    /\ Unwrap(envelope).blocking_layer = "Insurance"
    /\ Unwrap(envelope).reason = "Already have an open position"

\* C9: a TakeProfit1 report of the triple barrier never fully closes the
\* position: the position stays open (split to PartialTP1), so no position in
\* the closed list carries the close reason of a TP1 hit.
C9_Tp1KeepsPositionOpen ==
    /\ \A i \in DOMAIN closed : closed[i].close_reason # ExitReasonToString("TakeProfit1")
    /\ \A i \in DOMAIN open :
          (IsSome(barriers[open[i].id]) /\ Unwrap(barriers[open[i].id]).tp1_hit
              /\ toClose = <<>>)
          => open[i].status = "PartialTP1"

\* C11: across every evaluate call best_price moves only in the favourable
\* direction: it never decreases for a long position and never increases for
\* a short position.
C11_BestPriceMonotone ==
    [][(mt.is_long => mt'.best_price >= mt.best_price)
       /\ (~mt.is_long => mt'.best_price <= mt.best_price)]_vars

\* C12: across every evaluate and update_atr call trail_price only ratchets
\* toward the favourable side: it never decreases for a long position and
\* never increases for a short position.
C12_TrailPriceRatchets ==
    [][(mt.is_long => mt'.trail_price >= mt.trail_price)
       /\ (~mt.is_long => mt'.trail_price <= mt.trail_price)]_vars

\* C12 witness: a trail that has been ratcheted beyond the entry price sits
\* closer to the best price than the distance of the current evaluation, which
\* ran in another phase than the initial one, with the velocity shield
\* triggered and no order-flow tightening.
C12_Witness ==
    /\ mtNow > 0
    /\ mt.is_long
    /\ mt.trail_price > mt.entry_price
    /\ mt.best_price - mt.trail_price < mt.adjusted_trail_distance
    /\ mt.velocity_triggered
    /\ mt.of_tighten_mult = 1000
    /\ mt.atr_5m # TrailAtr

\* C13: state_version never decreases, and every step that changes observable
\* state (the open or closed positions with their prices and PnL, the trading
\* mode, the regime) also raises state_version.
C13_VersionBumpedOnMutation ==
    [][/\ state_version' >= state_version
       /\ <<open, closed, trading_mode, regime>>' # <<open, closed, trading_mode, regime>>
             => state_version' > state_version]_vars

\* C14: every exit collected in a tick of the exit monitor belongs to an open
\* position, and the close-loop iteration that takes it off to_close closes
\* that position in the position manager at the collected price and reason,
\* records its realized PnL in the risk engine, removes its barrier entry and
\* its trail entry and raises state_version, before the next evaluation.
C14_ExitClosesAndCleansUp ==
    /\ [](\A k \in DOMAIN toClose : \E i \in DOMAIN open : open[i].id = toClose[k].id)
    /\ [][(toClose # <<>> /\ toClose' = Tail(toClose)) =>
            LET e == Head(toClose)
                c == closed'[Len(closed')]
            IN /\ \A i \in DOMAIN open' : open'[i].id # e.id
               /\ Len(closed') = Len(closed) + 1
               /\ c.id = e.id /\ c.status = "Closed" /\ c.close_reason = e.reason
               /\ c.current_price = e.price
               /\ risk'.daily_trades_count = risk.daily_trades_count + 1
               /\ risk'.daily_pnl = risk.daily_pnl + c.realized_pnl
               /\ barriers'[e.id] = NoneOpt /\ trails'[e.id] = NoneOpt
               /\ state_version' = state_version + 1]_vars

\* C14 witness: the close loop has finished a tick that closed one position at
\* a loss on its stop, with its map entries gone and the loss recorded, while
\* the other position is still open with its barrier and its trail.
C14_Witness ==
    /\ toClose = <<>>
    /\ Len(closed) = 1 /\ Len(open) = 1
    /\ closed[1].close_reason = "SL" /\ closed[1].realized_pnl < 0
    /\ risk.daily_pnl = closed[1].realized_pnl
    /\ barriers[closed[1].id] = NoneOpt /\ trails[closed[1].id] = NoneOpt
    /\ IsSome(barriers[open[1].id]) /\ IsSome(trails[open[1].id])
    /\ state_version > 1

\* C17 as stated: a second evaluate at the same (price, time) returns the
\* same result as the first and leaves the barrier state unchanged.
C17_EvaluateIdempotent ==
    [][bin' = bin => (bs' = bs /\ bres' = bres)]_vars

\* C17 amended: a second evaluate at the same (price, time) leaves the barrier
\* state unchanged and returns the same result as the first, except that a
\* TakeProfit1 reported by the first is not reported again: the second
\* returns None.
C17_EvaluateIdempotentButTp1 ==
    [][bin' = bin =>
        /\ bs' = bs
        /\ bres' = bres \/ (bres = "TakeProfit1" /\ bres' = None)]_vars

\* C17 witness: an evaluate at a price between TP1 and TP2 has returned None
\* on a barrier whose TP1 was reported before, with the SL moved by the
\* profit lock.
C17_Witness ==
    /\ bs.tp1_hit /\ bres = None
    /\ bs.profit_lock_active
    /\ IF bs.side = "BUY" THEN bin.price >= bs.tp1_price /\ bin.price < bs.tp2_price
                          ELSE bin.price <= bs.tp1_price /\ bin.price > bs.tp2_price

\* C18: before the time limit, an evaluate at or beyond the TP1 price and
\* short of TP2 on a barrier that has not reported TP1 returns TakeProfit1;
\* TakeProfit1 is returned only while tp1_hit is unset and sets it for good, so
\* at most once; and an evaluate at or beyond the TP2 price returns
\* TakeProfit2, also after TP1 was reported.
C18_Tp1OnceThenTp2 ==
    [][LET price   == bin'.price
           before  == Elapsed(bs, bin'.time) < bs.config.time_limit_secs
           atTp1   == IF bs.side = "BUY" THEN price >= bs.tp1_price ELSE price <= bs.tp1_price
           atTp2   == IF bs.side = "BUY" THEN price >= bs.tp2_price ELSE price <= bs.tp2_price
       IN /\ (before /\ atTp1 /\ ~atTp2 /\ ~bs.tp1_hit) => bres' = "TakeProfit1"
          /\ bres' = "TakeProfit1" => (~bs.tp1_hit /\ bs'.tp1_hit)
          /\ bs.tp1_hit => bs'.tp1_hit
          /\ (before /\ atTp2) => bres' = "TakeProfit2"]_vars

\* C18 witness: TakeProfit2 has been returned by a barrier that reported
\* TakeProfit1 earlier.
C18_Witness ==
    /\ bs.tp1_hit /\ bres = "TakeProfit2"
    /\ Elapsed(bs, bin.time) < bs.config.time_limit_secs

\* C15: in every exit-supervisor tick both map locks are held by the monitor
\* while it evaluates, neither is held by it once the close loop has started,
\* and the monitor and the strategy loop never wait for each other: whenever
\* one of them waits for a map lock, the other holds it and is not waiting.
C15_MapLocksReleasedBeforeClose ==
    LET monWants == CASE mon.pc \in {"lockB", "rmB"} -> "barriers"
                      [] mon.pc \in {"lockT", "rmT"} -> "trails"
                      [] OTHER -> "none"
        regWants == CASE reg.pc = "lockB" -> "barriers"
                      [] reg.pc = "lockT" -> "trails"
                      [] OTHER -> "none"
        monBlocked == monWants # "none" /\ locks[monWants] # "free"
        regBlocked == regWants # "none" /\ locks[regWants] # "free"
    IN /\ mon.pc \in {"eval", "unlock"} =>
            locks.barriers = "monitor" /\ locks.trails = "monitor"
       /\ mon.pc \in {"sleep", "close", "rmB", "rmT"} =>
            locks.barriers # "monitor" /\ locks.trails # "monitor"
       /\ monBlocked => locks[monWants] = "strategy" /\ ~regBlocked
       /\ regBlocked => locks[regWants] = "monitor" /\ ~monBlocked

\* C15 witness: the monitor has closed a position and waits to remove its
\* barrier entry while the strategy loop holds the barrier map to register the
\* next position.
C15_Witness ==
    /\ mon.pc = "rmB"
    /\ reg.pc = "insB"
    /\ locks.barriers = "strategy"

\* C16: a step of the evaluation loop touches the micro-trail of the position
\* only if the triple barrier did not trigger for it in this tick and the
\* micro-trail flag read by the tick is on.
C16_TrailOnlyWhenEnabled ==
    [][(mon.pc = "eval" /\ trails' # trails) =>
          LET pos == mon.open_positions[mon.i]
              b   == barriers[pos.id]
          IN /\ mon.micro_trail_enabled
             /\ ~(IsSome(b) /\ BarrierEvaluate(Unwrap(b), pos.current_price,
                                               mon.now_secs).result # None)]_vars

\* C19: a position evaluated in a tick with a barrier state, a valid price and
\* elapsed >= time_limit is queued with reason TIME whatever its price, and
\* every queued position is closed when the close loop reaches it, so it is
\* closed within that tick.
C19_TimeBarrierCloses ==
    /\ [](mon.pc \in {"eval", "unlock"} =>
            \A j \in 1..(mon.i - 1) :
                LET pos == mon.open_positions[j]
                    b   == barriers[pos.id]
                IN (/\ IsSome(b)
                    /\ pos.current_price > 0
                    /\ mon.now_secs - Unwrap(b).opened_at_secs
                          >= Unwrap(b).config.time_limit_secs)
                   => \E k \in DOMAIN toClose :
                         toClose[k].id = pos.id /\ toClose[k].reason = "TIME")
    /\ [][(mon.pc = "close" /\ toClose # <<>> /\ (mon' # mon \/ toClose' # toClose)) =>
             \A k \in DOMAIN open' : open'[k].id # Head(toClose).id]_vars

\* C19 witness: a position has been closed by the time barrier at a price
\* other than its entry price.
C19_Witness ==
    \E k \in DOMAIN closed :
        /\ closed[k].close_reason = "TIME"
        /\ closed[k].current_price # closed[k].entry_price

\* C20: every proposal emitted keeps its stop loss at least 0.4 % of the entry
\* price away from the entry, its first take profit at least 0.6 % and its
\* second take profit at least 1 %, under any loaded runtime configuration.
C20_ProposalFloors ==
    IsSome(proposal) =>
        LET p == Unwrap(proposal)
        IN /\ Abs(p.stop_loss - p.entry_price) * 10000 >= 40 * p.entry_price
           /\ Abs(p.take_profit_1 - p.entry_price) * 10000 >= 60 * p.entry_price
           /\ Abs(p.take_profit_2 - p.entry_price) * 10000 >= 100 * p.entry_price

\* C21: check_all returns the reason of the first failing gate in the order
\* Killed, Paused, Dead regime, max positions, duplicate symbol, spread, risk
\* engine, and no reason only if every gate passes.
C21_FirstFailingGate ==
    IsSome(fnIn) /\ IsSome(fnOut) =>
        LET in == Unwrap(fnIn)
            expected ==
                IF in.mode = "Killed" THEN "Trading mode is KILLED"
                ELSE IF in.mode = "Paused" THEN "Trading mode is PAUSED"
                ELSE IF in.regime = "Dead" THEN "Market regime is DEAD"
                ELSE IF Len(in.book.open) >= in.book.max
                     THEN "Max concurrent positions reached"
                ELSE IF \E i \in DOMAIN in.book.open : in.book.open[i].symbol = in.symbol
                     THEN "Already have an open position"
                ELSE IF IsSome(in.spread) /\ Unwrap(in.spread) > 15 THEN "Spread too wide"
                ELSE IF in.risk.killed \/ in.risk.consecutive_losses >= MaxConsecutiveLosses
                     THEN "Risk engine blocked"
                ELSE None
        IN Unwrap(fnOut) = expected

\* C22: for every key the stored open times are strictly increasing and only
\* the trailing element of the ring may be an in-progress candle.
C22_RingOrdered ==
    \A k \in CandleKeys :
        LET ring == buffers[k]
        IN /\ \A i \in 1..(Len(ring) - 1) : ring[i].open_time < ring[i + 1].open_time
           /\ \A i \in 1..(Len(ring) - 1) : ring[i].is_closed

\* C23: when the ring ends with an in-progress candle and update receives the
\* closed candle of the same open time, the ring afterwards holds exactly one
\* element with that open time, that element is closed, and the ring is no
\* longer than before.
C23_ClosedTwinReplaces ==
    [][\A k \in CandleKeys :
         LET ring == buffers[k]
             after == buffers'[k]
         IN (/\ ring # <<>>
             /\ after # <<>>
             /\ after # ring
             /\ ~ring[Len(ring)].is_closed
             /\ after[Len(after)].is_closed
             /\ after[Len(after)].open_time = ring[Len(ring)].open_time)
            => /\ Cardinality({i \in 1..Len(after) :
                                 after[i].open_time = ring[Len(ring)].open_time}) = 1
               /\ Len(after) <= Len(ring)]_vars

\* C24: for every key the ring never holds more than max_candles closed candles
\* plus one in-progress candle.
C24_RingBounded ==
    \A k \in CandleKeys :
        LET ring == buffers[k]
        IN /\ Cardinality({i \in 1..Len(ring) : ring[i].is_closed}) <= max_candles
           /\ Cardinality({i \in 1..Len(ring) : ~ring[i].is_closed}) <= 1

\* C25: buy_volume_ratio() is buy / (buy + sell) over the window accumulators,
\* and 0.5 whenever their total is 0.
C25_BuyRatioOfWindow ==
    LET buy == tsp.buy_volume
        total == tsp.buy_volume + tsp.sell_volume
        r == buy_volume_ratio(tsp)
    IN IF total = 0
       THEN 2 * r.num = r.den
       ELSE r.num * total = buy * r.den

\* C26: across update_price calls the tracked extreme of an open position only
\* moves in the favourable direction (up for a long, down for a short), and so
\* does the default trailing stop once it is set.
C26_ExtremeIsWaterMark ==
    [][\A i \in DOMAIN open : \A j \in DOMAIN open' :
         open[i].id = open'[j].id =>
            LET before == open[i]
                after == open'[j]
                stops == IsSome(before.trailing_stop) /\ IsSome(after.trailing_stop)
            IN /\ IsSome(before.trailing_stop) => IsSome(after.trailing_stop)
               /\ IF before.side = "BUY"
                  THEN /\ after.highest_price >= before.highest_price
                       /\ stops => Unwrap(after.trailing_stop) >= Unwrap(before.trailing_stop)
                  ELSE /\ after.highest_price <= before.highest_price
                       /\ stops => Unwrap(after.trailing_stop) <= Unwrap(before.trailing_stop)]_vars

\* C27: a position's quantity is reduced in place only by check_exits at TP1
\* while its status is Open: 60 % of the quantity is taken off, the PnL of that
\* part is added to realized_pnl, the status becomes PartialTP1 and the position
\* is not among the returned exits.  Open positions are Open or PartialTP1 and
\* never go back to Open, the journal holds Closed positions only, and no
\* position has more than one partial fill before its closing fill.
C27_PartialCloseOnce ==
    /\ [](/\ \A i \in DOMAIN open : open[i].status \in {"Open", "PartialTP1"}
          /\ \A i \in DOMAIN closed : closed[i].status = "Closed"
          /\ \A i \in DOMAIN open : Len(fills[open[i].id]) <= 1
          /\ \A i \in DOMAIN closed : Len(fills[closed[i].id]) <= 2)
    /\ [][\A i \in DOMAIN open : \A j \in DOMAIN open' :
            open[i].id = open'[j].id =>
               LET before == open[i]
                   after == open'[j]
                   close_qty == (before.quantity * TP1_CLOSE_FRACTION) \div 100
               IN /\ after.status # before.status
                       => before.status = "Open" /\ after.status = "PartialTP1"
                  /\ (after.status # before.status \/ after.quantity # before.quantity
                        \/ after.realized_pnl # before.realized_pnl)
                       => /\ before.status = "Open"
                          /\ after.status = "PartialTP1"
                          /\ after.quantity = before.quantity - close_qty
                          /\ after.realized_pnl = before.realized_pnl
                                + Direction(before.side)
                                  * (before.current_price - before.entry_price) * close_qty
                          /\ IF before.side = "BUY"
                             THEN before.current_price >= before.take_profit_1
                             ELSE before.current_price <= before.take_profit_1
                          /\ \A e \in DOMAIN check_exits(open).exits :
                                check_exits(open).exits[e][1] # before.id]_vars

\* C27 witness: a position in the journal that was partially closed at TP1 and
\* closed later, next to an open position partially closed and still open.
C27_Witness ==
    /\ \E i \in DOMAIN closed : Len(fills[closed[i].id]) = 2 /\ closed[i].status = "Closed"
    /\ \E i \in DOMAIN open : open[i].status = "PartialTP1" /\ open[i].quantity < origQty[open[i].id]

\* C28: every close_reason in the closed-position journal is StopLoss,
\* TakeProfit1, TakeProfit2, TrailingStop, TimeBarrier, or MicroTrail_<phase>
\* alone or followed by " | " and reason tags.
C28_StableCloseReasons ==
    \A i \in DOMAIN closed :
        LET r == closed[i].close_reason
        IN \/ r \in {"StopLoss", "TakeProfit1", "TakeProfit2", "TrailingStop", "TimeBarrier"}
           \/ \E ph \in {"Loose", "Standard", "Aggressive"} :
                LET head == "MicroTrail_" \o TrailPhaseToString(ph)
                IN \/ r = head
                   \/ /\ Len(r) > Len(head) + 3
                      /\ SubSeq(r, 1, Len(head) + 3) = head \o " | "

\* C29: with the adaptive-threshold filter enabled and a regime detected, the
\* filters let a trade pass only if |score| is at least the regime's floor
\* (Trending 0.10, Ranging 0.18, Volatile 0.20, Squeeze 0.15), and never while
\* the regime is Dead.
C29_AdaptiveFloor ==
    (IsSome(fnIn) /\ IsSome(fnOut)) =>
        LET in == Unwrap(fnIn)
            floor == CASE in.regime = "Trending" -> 10
                       [] in.regime = "Ranging"  -> 18
                       [] in.regime = "Volatile" -> 20
                       [] in.regime = "Squeeze"  -> 15
                       [] OTHER                  -> 0
        IN (in.enable_adaptive_threshold /\ in.regime # None /\ Unwrap(fnOut) = None)
              => /\ in.regime # "Dead"
                 /\ Abs(in.score) >= floor

\* C30: after every record_trade_result the risk-mode label is KILLED if the
\* kill latch is set, otherwise BREAKER_TRIPPED if one of the four breakers
\* (daily loss, consecutive losses, drawdown, trade count) is at its limit,
\* otherwise Cautious if one of the four has reached 75 % of its limit,
\* otherwise Normal.
C30_RiskModeLabel ==
    [][(/\ risk'.daily_trades_count >= 1
        /\ \/ risk'.daily_trades_count # risk.daily_trades_count
           \/ risk'.current_date # risk.current_date)
       => LET s == risk'
              loss == -s.daily_pnl
              per_bp == Capital \div 10000
              tripped == \/ loss >= MaxDailyLossBp * per_bp
                         \/ s.consecutive_losses >= MaxConsecutiveLosses
                         \/ s.max_drawdown_today >= MaxDrawdownBp
                         \/ s.daily_trades_count >= MaxDailyTrades
              near == \/ 4 * loss >= 3 * MaxDailyLossBp * per_bp
                      \/ 4 * s.consecutive_losses >= 3 * MaxConsecutiveLosses
                      \/ 4 * s.max_drawdown_today >= 3 * MaxDrawdownBp
                      \/ 4 * s.daily_trades_count >= 3 * MaxDailyTrades
          IN s.risk_mode = IF s.killed THEN "KILLED"
                           ELSE IF tripped THEN "BREAKER_TRIPPED"
                           ELSE IF near THEN "Cautious"
                           ELSE "Normal"]_vars

\* C31: whatever configuration was loaded, the engine starts with
\* trading_mode Paused, account_mode Demo and no position, and as long as no
\* control request (pause, resume, kill, account-mode) is served this stays so:
\* the modes keep their values, no position is opened and no proposal is
\* pending.
C31_SafeUntilControl ==
    /\ BootQuiet
    /\ [][(BootQuiet /\ ~ControlRequest) => BootQuiet']_vars
    /\ [][(trading_mode' # trading_mode \/ account_mode' # account_mode) => ControlRequest]_vars

\* C31 witness: the configuration file asked for Live trading on the live
\* account, the strategy loop has evaluated every symbol, and the engine is
\* still Paused on Demo with no position.
C31_Witness ==
    /\ IsSome(fnIn)
    /\ Unwrap(fnIn).trading_mode = "Live" /\ Unwrap(fnIn).account_mode = "Live"
    /\ trading_mode = "Paused" /\ account_mode = "Demo"
    /\ \A sym \in SymbolSet : tickEnvs[sym] = 1
    /\ open = <<>> /\ nextId = 1

\* C32: the regime is that of the first rule that matches in the order Dead
\* (entropy >= 0.95), Volatile (BBW > 5), Squeeze (BBW < 1.5 and ADX < 20),
\* Trending (ADX > 25 and Hurst > 0.55), Ranging; in particular entropy >= 0.95
\* gives Dead whatever ADX and Hurst say.
C32_RegimePriority ==
    (IsSome(fnIn) /\ IsSome(fnOut)) =>
        LET in == Unwrap(fnIn)
            out == Unwrap(fnOut)
            dead == in.entropy >= 95
            volatile == in.bbw > 50
            squeeze == in.bbw < 15 /\ in.adx < 20
            trending == in.adx > 25 /\ in.hurst > 55
        IN /\ dead => out = "Dead"
           /\ (~dead /\ volatile) => out = "Volatile"
           /\ (~dead /\ ~volatile /\ squeeze) => out = "Squeeze"
           /\ (~dead /\ ~volatile /\ ~squeeze /\ trending) => out = "Trending"
           /\ (~dead /\ ~volatile /\ ~squeeze /\ ~trending) => out = "Ranging"

\* C32 witness: ADX 40 and Hurst 0.70 with entropy 0.97 classified Dead.
C32_Witness ==
    /\ IsSome(fnIn) /\ IsSome(fnOut)
    /\ Unwrap(fnIn) = [adx |-> 40, bbw |-> 30, hurst |-> 70, entropy |-> 97]
    /\ Unwrap(fnOut) = "Dead"

\* C33: while the trading mode is Paused or Killed (the pause or kill request
\* has returned and no resume has been served) no position is opened.
C33_NoOpenAfterPause ==
    [][(trading_mode \in {"Paused", "Killed"} /\ trading_mode' = trading_mode)
         => (nextId' = nextId /\ Len(open') <= Len(open))]_vars

\* C34: the barrier map and the trail map hold no entry for the id of a closed
\* position (the position the exit monitor has just closed and is cleaning up
\* apart).
C34_MapsOnlyOpenPositions ==
    \A i \in DOMAIN closed :
        LET id == closed[i].id
            cleaning == /\ mon.pc \in {"rmB", "rmT"}
                        /\ toClose # <<>>
                        /\ Head(toClose).id = id
        IN ~cleaning => (barriers[id] = NoneOpt /\ trails[id] = NoneOpt)

C36_BarrierLevelsAreProposalLevels ==
    [][\A id \in 1..MaxPositions :
          (barriers[id] = NoneOpt /\ barriers'[id] # NoneOpt) =>
              \A i \in DOMAIN open :
                  open[i].id = id =>
                      /\ Unwrap(barriers'[id]).current_sl_price = open[i].stop_loss
                      /\ Unwrap(barriers'[id]).tp1_price = open[i].take_profit_1
                      /\ Unwrap(barriers'[id]).tp2_price = open[i].take_profit_2]_vars

\* C37: a reset_daily() that follows kill() releases the kill latch: the
\* can_trade() after it is not blocked by the kill switch.
C37_ResetReleasesKill ==
    [][(RResetDaily /\ risk.killed) => can_trade(risk', wallDate').reason # "Kill"]_vars

C39_OpensWithinDailyLimit ==
    wallDate = 0 => nextId - 1 <= MaxDailyTrades

\* C40: the per-layer verdicts of an envelope agree with its final decision:
\* in a BLOCK envelope the verdict of the blocking layer (for the layers that
\* have a verdict field) is FAIL; in an ALLOW envelope every verdict is PASS
\* and blocking_layer is empty.
C40_VerdictsAgreeWithDecision ==
    IsSome(envelope) =>
        LET e == Unwrap(envelope) IN
        /\ (e.final_decision = "BLOCK" /\ e.blocking_layer = "DataQuality")
              => e.data_quality_verdict = "FAIL"
        /\ (e.final_decision = "BLOCK" /\ e.blocking_layer = "Insurance")
              => e.insurance_verdict = "FAIL"
        /\ e.final_decision = "ALLOW"
              => /\ e.data_quality_verdict = "PASS"
                 /\ e.insurance_verdict = "PASS"
                 /\ e.risk_verdict = "PASS"
                 /\ e.execution_quality_verdict = "PASS"
                 /\ e.blocking_layer = None

====
